---- MODULE Spec2Model ----
(***************************************************************************)
(* A model of the rust-tipc library: the typed socket facade and the       *)
(* descriptor each handle owns (src/src/sock.rs), Socket::connect,         *)
(* recv_msg / recv_from, and the topology client (src/src/topo.rs).        *)
(*                                                                         *)
(* Spec      the typed facade over a kernel descriptor table               *)
(* SpecConn  Socket::connect over a list of candidate addresses            *)
(* SpecMsg   recv_msg / recv_from / recv_from_vectored on one message      *)
(* SpecTopo  Server::subscribe / unsubscribe / recv and the iterators      *)
(* SpecWait  topo::wait against the topology server's event queue          *)
(* SpecSock  set_rejectable, send_to, mcast, bind and recv_from on a       *)
(*           datagram socket                                               *)
(* SpecOwn   own_node called from several threads                          *)
(***************************************************************************)
EXTENDS Integers, Sequences, FiniteSets, Bags, TLC

\* ------------------------------------------------------------------ bounds
MaxFd == 2          \* size of the kernel descriptor table
MaxAddrs == 4       \* candidate addresses yielded to Socket::connect
MaxLen == 2         \* longest buffer, payload and returned payload
MaxSends == 2       \* send syscalls whose results a topology call is offered
MaxEvents == 3      \* events the topology server queues before a subscription expires
MaxQueue == 2       \* returned datagrams waiting on the datagram socket
MaxCalls == 2       \* calls of own_node by each thread

VARIABLES
    fdt,        \* kernel: descriptor -> [open, sk]
    skt,        \* kernel: socket object -> [bound, listening, connected]
    hs,         \* library: the bag of live handles [wrap, typ, fd]
    released,   \* descriptors handed to the caller by into_raw_fd
    badClose,   \* a close() hit a descriptor that was not the caller's to close
    sys,        \* the connect, listen or accept syscall the last operation issued
    trans,      \* the last operation and the handle it was invoked on
    cn,         \* SpecConn: the last Socket::connect call
    rm,         \* SpecMsg: the last received message and its results
    tp,         \* SpecTopo: the last topology operation
    wt,         \* SpecWait: one call of topo::wait and the server's event queue
    dg,         \* SpecSock: one datagram socket, its kernel option and its last call
    on,         \* SpecOwn: the threads that call own_node and its Once cell
    ad          \* SpecAddr: the last address made, formatted or parsed

facadeVars == <<fdt, skt, hs, released, badClose, sys, trans>>
vars == <<fdt, skt, hs, released, badClose, sys, trans, cn, rm, tp, wt, dg, on, ad>>
others == <<cn, rm, tp, wt, dg, on, ad>>

\* ------------------------------------------------------- the typed facade
Kinds == {"Stream", "SeqPacket", "Datagram"}

\* impl Bindable for Stream, SeqPacket, Datagram
Bindable == {"Stream", "SeqPacket", "Datagram"}

\* impl Connectable for Stream, SeqPacket
Connectable == {"Stream", "SeqPacket"}

FDs == 0 .. (MaxFd - 1)
SockIds == 1 .. MaxFd

\* Builder<T>(Socket), Bound<T>(T), Listener<T>(Socket), Connected<T>(T),
\* Group<T>(T), and T itself ("Plain"): Stream(Socket), SeqPacket(Socket),
\* Datagram(Socket); Socket(RawFd)
Handle(w, t, f) == [wrap |-> w, typ |-> t, fd |-> f]
NoHandle == [wrap |-> "-", typ |-> "-", fd |-> 0]
NoSock == [bound |-> FALSE, listening |-> FALSE, connected |-> FALSE]
NoSys == [call |-> "-", typ |-> "-", via |-> "-"]

Handles == BagToSet(hs)
Live(r) == BagIn(r, hs)
Is(r, w) == Live(r) /\ r.wrap = w
SkOf(r) == fdt[r.fd].sk
One(r) == SetToBag({r})

\* libc::socket / libc::accept / libc::dup: the kernel hands out the lowest
\* free descriptor
HasFreeFd == \E f \in FDs : ~fdt[f].open
LowestFreeFd == CHOOSE f \in FDs : ~fdt[f].open /\ \A g \in FDs : g < f => fdt[g].open
FreeSk ==
    LET used == {fdt[f].sk : f \in {g \in FDs : fdt[g].open}}
    IN CHOOSE s \in SockIds : s \notin used /\ \A t \in SockIds : t < s => t \in used

\* Socket::try_clone: libc::dup gives the clone a descriptor of its own
TryCloneAlias(fd) == fd
TryCloneFd(fd) == LowestFreeFd

\* IntoRawFd for Socket: mem::forget(self) inhibits the destructor
IntoRawFdForgets(r) == TRUE

\* a method that takes `&self` leaves its handle with the caller
Borrowed(r) == One(r)
\* a method that takes `self` takes the handle away from the caller
NotMoved(r) == One(r)
Moved(r) == EmptyBag

\* Drop for Socket: libc::close(self.as_raw_fd())
CloseIsBad(r) ==
    \/ ~fdt[r.fd].open
    \/ r.fd \in released
    \/ \E g \in Handles : g.fd = r.fd /\ (g /= r \/ CopiesIn(r, hs) > 1)
ClosedTab(f) == [fdt EXCEPT ![f] = [open |-> FALSE, sk |-> 1]]
\* the kernel frees a socket object when its last descriptor is closed
ClosedSk(f, tab) ==
    IF fdt[f].open /\ ~\E g \in FDs : g /= f /\ fdt[g].open /\ fdt[g].sk = fdt[f].sk
    THEN [tab EXCEPT ![fdt[f].sk] = NoSock] ELSE tab

Logged(call, r, via) == [call |-> call, typ |-> r.typ, via |-> via]
\* failed: the operation returned Err (recorded for the consuming transitions)
Trans(op, r) == [op |-> op, self |-> r, failed |-> FALSE]

\* ------------------------------------------------------ Socket::connect
\* One connect syscall per candidate; errno 0 is success.
ConnResults == UNION {[1 .. n -> {0, 111, 113}] : n \in 0 .. MaxAddrs}
\* io::Result<()>: Ok(()), an OS error carrying errno, or addr_not_available()
OkUnit == [ok |-> TRUE, kind |-> "Ok", errno |-> 0]
OsError(e) == [ok |-> FALSE, kind |-> "Os", errno |-> e]
AddrNotAvailable == [ok |-> FALSE, kind |-> "AddrNotAvailable", errno |-> 0]

\* IntoResult<()> for i32: a negative return is the OS error, anything else Ok
IntoResult(e) == IF e = 0 THEN OkUnit ELSE OsError(e)

RECURSIVE ConnectLoopNoBreak(_, _, _)
ConnectLoopNoBreak(results, i, res) ==
    IF i > Len(results) THEN [res |-> res, calls |-> i - 1]
    ELSE ConnectLoopNoBreak(results, i + 1, IntoResult(results[i]))

\* the loop of Socket::connect from candidate i on, res being the result so far
RECURSIVE ConnectLoop(_, _, _)
ConnectLoop(results, i, res) ==
    IF i > Len(results) THEN [res |-> res, calls |-> i - 1]
    ELSE IF IntoResult(results[i]).ok THEN [res |-> IntoResult(results[i]), calls |-> i]
    ELSE ConnectLoop(results, i + 1, IntoResult(results[i]))

SocketConnect(results) == ConnectLoop(results, 1, AddrNotAvailable)

\* ------------------------------------------------- facade: shared effects
\* candidate lists the facade's connect calls are tried with
FacadeResults == {<<>>, <<0>>, <<111>>, <<111, 0>>}

\* libc::socket succeeded: a fresh kernel socket behind the lowest free descriptor
Create(kind, w) ==
    /\ HasFreeFd
    /\ LET f == LowestFreeFd
           s == FreeSk
       IN /\ fdt' = [fdt EXCEPT ![f] = [open |-> TRUE, sk |-> s]]
          /\ skt' = [skt EXCEPT ![s] = NoSock]
          /\ hs' = hs (+) One(Handle(w, kind, f))
    /\ UNCHANGED <<released, badClose>>

\* the value is moved into a new wrapper around the same Socket
Rewrap(r, w) ==
    /\ hs' = ((hs (-) One(r)) (+) Moved(r)) (+) One(Handle(w, r.typ, r.fd))
    /\ UNCHANGED <<fdt, released, badClose>>

\* the value goes out of scope: Drop for Socket closes its descriptor
DroppedWith(r, tab) ==
    /\ hs' = hs (-) One(r)
    /\ fdt' = ClosedTab(r.fd)
    /\ skt' = ClosedSk(r.fd, tab)
    /\ badClose' = (badClose \/ CloseIsBad(r))
    /\ UNCHANGED released

\* an error path that ends the life of the handle it consumed
DroppedKept(r) == UNCHANGED <<fdt, skt, hs, released, badClose>>
Dropped(r) == DroppedWith(r, skt)

Flagged(r, flag) ==
    [skt EXCEPT ![SkOf(r)] =
               CASE flag = "bound" -> [@ EXCEPT !.bound = TRUE]
                 [] flag = "listening" -> [@ EXCEPT !.listening = TRUE]
                 [] flag = "connected" -> [@ EXCEPT !.connected = TRUE]
                 [] flag = "unbound" -> [@ EXCEPT !.bound = FALSE]]

SetFlag(r, flag) == skt' = Flagged(r, flag)

\* ------------------------------------------------------- facade: actions
\* Builder::stream / seq_packet / datagram / rdm
BuilderNew(kind, ok) ==
    /\ IF ok THEN Create(kind, "Builder") ELSE UNCHANGED <<fdt, skt, hs, released, badClose>>
    /\ sys' = NoSys
    /\ trans' = Trans("Builder::new", NoHandle)
    /\ UNCHANGED others

\* stream() / seq_packet() / datagram() / rdm()
PlainNew(kind, ok) ==
    /\ IF ok THEN Create(kind, "Plain") ELSE UNCHANGED <<fdt, skt, hs, released, badClose>>
    /\ sys' = NoSys
    /\ trans' = Trans("new", NoHandle)
    /\ UNCHANGED others

\* From<Builder<T>> for T
BuilderInto(r) ==
    /\ Is(r, "Builder")
    /\ Rewrap(r, "Plain")
    /\ sys' = NoSys
    /\ trans' = Trans("Builder::into", r)
    /\ UNCHANGED skt
    /\ UNCHANGED others

\* Builder::try_clone, Listener::try_clone, Stream/SeqPacket/Datagram::try_clone
\* (also reached through Deref from Bound, Connected and Group)
TryClone(r, ok) ==
    /\ Live(r)
    /\ IF ok /\ HasFreeFd
       THEN LET f == TryCloneFd(r.fd)
                w == IF r.wrap \in {"Builder", "Listener"} THEN r.wrap ELSE "Plain"
            IN /\ fdt' = [fdt EXCEPT ![f] = [open |-> TRUE, sk |-> SkOf(r)]]
               /\ hs' = hs (+) One(Handle(w, r.typ, f))
       ELSE UNCHANGED <<fdt, hs>>
    /\ sys' = NoSys
    /\ trans' = Trans("try_clone", r)
    /\ UNCHANGED <<skt, released, badClose>>
    /\ UNCHANGED others

\* Builder::bind(self, addr)
BuilderBind(r, ok) ==
    /\ Is(r, "Builder") /\ r.typ \in Bindable
    /\ sys' = NoSys
    /\ trans' = [Trans("Builder::bind", r) EXCEPT !.failed = ~ok]
    /\ IF ok THEN Rewrap(r, "Bound") /\ SetFlag(r, "bound")
       ELSE Dropped(r)
    /\ UNCHANGED others

\* Builder::connect(self, addr)
BuilderConnect(r, results) ==
    /\ Is(r, "Builder") /\ r.typ \in Connectable
    /\ LET c == SocketConnect(results) IN
       /\ sys' = IF c.calls > 0 THEN Logged("connect", r, "facade") ELSE NoSys
       /\ trans' = [Trans("Builder::connect", r) EXCEPT !.failed = ~c.res.ok]
       /\ IF c.res.ok THEN Rewrap(r, "Connected") /\ SetFlag(r, "connected")
          ELSE Dropped(r)
    /\ UNCHANGED others

\* Builder::importance / connect_timeout / nonblocking / recv_buf_size
BuilderOption(r, ok) ==
    /\ Is(r, "Builder")
    /\ sys' = NoSys
    /\ trans' = [Trans("Builder::option", r) EXCEPT !.failed = ~ok]
    /\ IF ok THEN UNCHANGED <<fdt, skt, hs, released, badClose>>
       ELSE Dropped(r)
    /\ UNCHANGED others

\* Bound::bind(&self, addr)
BoundBind(r, ok) ==
    /\ Is(r, "Bound")
    /\ sys' = NoSys
    /\ trans' = Trans("Bound::bind", r)
    /\ hs' = (hs (-) One(r)) (+) Borrowed(r)
    /\ IF ok THEN SetFlag(r, "bound") ELSE UNCHANGED skt
    /\ UNCHANGED <<fdt, released, badClose>>
    /\ UNCHANGED others

\* Bound::unbind(self, addr): the Bound is dropped when the call returns
BoundUnbind(r, ok) ==
    /\ Is(r, "Bound")
    /\ sys' = NoSys
    /\ trans' = Trans("Bound::unbind", r)
    /\ DroppedWith(r, IF ok THEN Flagged(r, "unbound") ELSE skt)
    /\ UNCHANGED others

\* Bound::listen(self)
BoundListen(r, ok) ==
    /\ Is(r, "Bound") /\ r.typ \in Connectable
    /\ sys' = Logged("listen", r, "facade")
    /\ trans' = Trans("Bound::listen", r)
    /\ IF ok THEN Rewrap(r, "Listener") /\ SetFlag(r, "listening")
       ELSE Dropped(r)
    /\ UNCHANGED others

\* From<Bound<Datagram>> for Datagram
BoundInto(r) ==
    /\ Is(r, "Bound") /\ r.typ = "Datagram"
    /\ Rewrap(r, "Plain")
    /\ sys' = NoSys
    /\ trans' = Trans("Bound::into", r)
    /\ UNCHANGED skt
    /\ UNCHANGED others

\* impl<T: Connectable> From<T> for Listener<T>
ListenerFrom(r) ==
    /\ Is(r, "Plain") /\ r.typ \in Connectable
    /\ Rewrap(r, "Listener")
    /\ sys' = NoSys
    /\ trans' = Trans("Listener::from", r)
    /\ UNCHANGED skt
    /\ UNCHANGED others

\* Listener::accept(&self); the kernel accepts only on a listening socket
ListenerAccept(r, ok) ==
    /\ Is(r, "Listener") /\ r.typ \in Connectable
    /\ sys' = Logged("accept", r, "facade")
    /\ trans' = Trans("Listener::accept", r)
    /\ IF ok /\ skt[SkOf(r)].listening /\ HasFreeFd
       THEN LET f == LowestFreeFd
                s == FreeSk
            IN /\ fdt' = [fdt EXCEPT ![f] = [open |-> TRUE, sk |-> s]]
               /\ skt' = [skt EXCEPT ![s] = [NoSock EXCEPT !.connected = TRUE]]
               /\ hs' = ((hs (-) One(r)) (+) Borrowed(r))
                            (+) One(Handle("Connected", r.typ, f))
       ELSE UNCHANGED <<fdt, skt, hs>>
    /\ UNCHANGED <<released, badClose>>
    /\ UNCHANGED others

\* Stream::connect(self, addr) / SeqPacket::connect(self, addr)
PlainConnect(r, results) ==
    /\ Is(r, "Plain") /\ r.typ \in {"Stream", "SeqPacket"}
    /\ LET c == SocketConnect(results) IN
       /\ sys' = IF c.calls > 0 THEN Logged("connect", r, "facade") ELSE NoSys
       /\ trans' = Trans("connect", r)
       /\ IF c.res.ok THEN Rewrap(r, "Connected") /\ SetFlag(r, "connected")
          ELSE Dropped(r)
    /\ UNCHANGED others

\* SeqPacket::into_connected / Datagram::into_connected
IntoConnected(r) ==
    /\ Is(r, "Plain") /\ r.typ \in {"SeqPacket", "Datagram"}
    /\ Rewrap(r, "Connected")
    /\ sys' = NoSys
    /\ trans' = Trans("into_connected", r)
    /\ UNCHANGED skt
    /\ UNCHANGED others

\* Datagram::bind(self, addr)
DatagramBind(r, ok) ==
    /\ Is(r, "Plain") /\ r.typ = "Datagram"
    /\ sys' = NoSys
    /\ trans' = Trans("Datagram::bind", r)
    /\ IF ok THEN Rewrap(r, "Bound") /\ SetFlag(r, "bound")
       ELSE Dropped(r)
    /\ UNCHANGED others

\* Datagram::join(self, addr, flags)
DatagramJoin(r, ok) ==
    /\ Is(r, "Plain") /\ r.typ = "Datagram"
    /\ sys' = NoSys
    /\ trans' = [Trans("Datagram::join", r) EXCEPT !.failed = ~ok]
    /\ IF ok THEN Rewrap(r, "Group") /\ UNCHANGED skt ELSE Dropped(r)
    /\ UNCHANGED others

\* Group::leave(self)
GroupLeave(r, ok) ==
    /\ Is(r, "Group")
    /\ sys' = NoSys
    /\ trans' = [Trans("Group::leave", r) EXCEPT !.failed = ~ok]
    /\ IF ok THEN Rewrap(r, "Plain") /\ UNCHANGED skt ELSE Dropped(r)
    /\ UNCHANGED others

\* Socket::listen / Socket::connect on the &Socket that AsRef<Socket> gives
\* (Stream, SeqPacket, Datagram; Bound, Connected and Group deref to them)
SocketCall(r, call, ok) ==
    /\ Live(r) /\ r.wrap \in {"Plain", "Bound", "Connected", "Group"}
    /\ call \in {"listen", "connect"}
    /\ sys' = Logged(call, r, "Socket")
    /\ trans' = Trans("as_ref", r)
    /\ IF ok THEN SetFlag(r, IF call = "listen" THEN "listening" ELSE "connected")
       ELSE UNCHANGED skt
    /\ UNCHANGED <<fdt, hs, released, badClose>>
    /\ UNCHANGED others

\* a handle goes out of scope
Drop(r) ==
    /\ Live(r)
    /\ Dropped(r)
    /\ sys' = NoSys
    /\ trans' = Trans("drop", r)
    /\ UNCHANGED others

\* IntoRawFd for Builder, Listener, Stream, SeqPacket and Datagram
IntoRawFd(r) ==
    /\ Live(r) /\ r.wrap \in {"Builder", "Listener", "Plain"}
    /\ hs' = hs (-) One(r)
    /\ released' = released \cup {r.fd}
    /\ IF IntoRawFdForgets(r)
       THEN UNCHANGED <<fdt, skt, badClose>>
       ELSE /\ fdt' = ClosedTab(r.fd)
            /\ skt' = ClosedSk(r.fd, skt)
            /\ badClose' = (badClose \/ CloseIsBad(r))
    /\ sys' = NoSys
    /\ trans' = Trans("into_raw_fd", r)
    /\ UNCHANGED others

FacadeInit ==
    /\ fdt = [f \in FDs |-> [open |-> FALSE, sk |-> 1]]
    /\ skt = [s \in SockIds |-> NoSock]
    /\ hs = EmptyBag
    /\ released = {}
    /\ badClose = FALSE
    /\ sys = NoSys
    /\ trans = [op |-> "-", self |-> NoHandle, failed |-> FALSE]

\* SpecAddr: no address operation yet; text is a string, one character an element
\* (shown: it is the Display of arg), ty the type a text is parsed as
NoAddr == [op |-> "-", shown |-> FALSE, arg |-> NoHandle, text |-> <<>>, ty |-> "-",
           out |-> [ok |-> FALSE, tag |-> "-", val |-> NoHandle]]

\* ---------------------------------------------------------------- SpecConn
NoConn == [called |-> FALSE, results |-> <<>>, res |-> AddrNotAvailable, calls |-> 0]

\* Socket::connect(addr): results[i] is what libc::connect returns for the
\* i-th candidate of addr.to_service_addrs(); calls counts the connect syscalls
Connect(results) ==
    /\ cn' = [called |-> TRUE,
              results |-> results,
              res |-> SocketConnect(results).res,
              calls |-> SocketConnect(results).calls]
    /\ UNCHANGED <<facadeVars, rm, tp, wt, dg, on, ad>>

ConnNext == \E results \in ConnResults : Connect(results)

\* ----------------------------------------------------------------- SpecMsg
\* ffi::TIPC_ERRINFO, TIPC_RETDATA, TIPC_DESTNAME
TIPC_ERRINFO == 1
TIPC_RETDATA == 2
TIPC_DESTNAME == 3
\* mem::size_of::<u32>() and mem::size_of::<ffi::tipc_name_seq>()
SizeOfU32 == 4
SizeOfNameSeq == 12
\* ffi::TIPC_MAX_USER_MSG_SIZE and mem::size_of::<libc::cmsghdr>()
TIPC_MAX_USER_MSG_SIZE == 66000
SizeOfCmsghdr == 16
\* libc::CMSG_SPACE(n): the header and the data, each rounded up to 8 bytes
CmsgSpace(n) == SizeOfCmsghdr + ((n + 7) \div 8) * 8
\* anc_space_size of recv_msg, the msg_controllen handed to recvmsg
AncSpaceSize == CmsgSpace(8) + CmsgSpace(1024) + CmsgSpace(16)

\* Option<u32> / Option<usize> and Option<ServiceRange> / Option<ServiceAddr>
NoneInt == [some |-> FALSE, val |-> 0]
SomeInt(n) == [some |-> TRUE, val |-> n]
NoneSvc == [some |-> FALSE, val |-> "-"]
SomeSvc(a) == [some |-> TRUE, val |-> a]

\* what libc::recvmsg hands back: the caller's buffer has blen bytes, rc is the
\* return value (-1: failure), oob / eor are the MSG_OOB / MSG_EOR bits of
\* msg_flags, slots is msg_namelen in sockaddr_tipc units, slot0 / slot1 the
\* name area (slot 1 stays zeroed when the kernel reports one slot), err and
\* retlen the two words of ERRINFO (err 0: no ERRINFO), dest the DESTNAME range; gsn tells whether
\* the getsockname of Socket::local_addr succeeds. retdata is the number of
\* bytes of RETDATA that came through: the control messages share the
\* AncSpaceSize bytes of anc_space, so a returned payload longer than the room
\* left behind ERRINFO arrives cut. first tells which of ERRINFO and RETDATA
\* comes first, extra whether a control message that recv_msg does not know (by
\* its type, or by its level) precedes them.
Messages ==
    LET room == AncSpaceSize - CmsgSpace(SizeOfU32 * 2) - SizeOfCmsghdr
        all == { [blen |-> b, rc |-> rc, oob |-> oob, eor |-> eor, slots |-> n,
                  slot0 |-> "peer", slot1 |-> IF n = 2 THEN "member" ELSE "zeroed",
                  err |-> e, retlen |-> IF e = 0 THEN 0 ELSE k,
                  retdata |-> IF e = 0 THEN 0 ELSE IF k < room THEN k ELSE room,
                  first |-> f, extra |-> x, dest |-> d, gsn |-> g] :
                    b \in 0 .. MaxLen, rc \in -1 .. MaxLen, oob \in BOOLEAN, eor \in BOOLEAN,
                    n \in {1, 2}, e \in {0, 1, 3},
                    k \in (0 .. MaxLen) \cup {room, room + 1, TIPC_MAX_USER_MSG_SIZE},
                    f \in {"ERRINFO", "RETDATA"}, x \in {"-", "type", "level"},
                    d \in {NoneSvc, SomeSvc("service")}, g \in BOOLEAN }
        space(m) == (IF m.extra /= "-" THEN CmsgSpace(SizeOfU32 * 2) ELSE 0)
                    + (IF m.err /= 0 THEN CmsgSpace(SizeOfU32 * 2) ELSE 0)
                    + (IF m.retdata > 0 THEN CmsgSpace(m.retdata) ELSE 0)
                    + (IF m.dest.some THEN CmsgSpace(SizeOfNameSeq) ELSE 0)
    IN {m \in all : space(m) <= AncSpaceSize /\ (m.err = 0 => m.first = "ERRINFO")}

\* the control messages the kernel queues: ERRINFO (8 bytes: error code and
\* length of the returned data), RETDATA when data is returned, DESTNAME
Cmsg(ty, dlen, w1, w2, svc) ==
    [level |-> "SOL_TIPC", ty |-> ty, dlen |-> dlen, w1 |-> w1, w2 |-> w2, svc |-> svc]
Cmsgs(m) ==
    LET errinfo == IF m.err /= 0
                   THEN <<Cmsg(TIPC_ERRINFO, SizeOfU32 * 2, m.err, m.retlen, "-")>> ELSE <<>>
        retdata == IF m.err /= 0 /\ m.retdata > 0
                   THEN <<Cmsg(TIPC_RETDATA, m.retdata, 0, 0, "-")>> ELSE <<>>
    IN (IF m.extra = "type" THEN <<Cmsg(TIPC_DESTNAME + 1, SizeOfU32 * 2, 3, MaxLen, "-")>>
        ELSE IF m.extra = "level"
             THEN <<[Cmsg(TIPC_ERRINFO, SizeOfU32 * 2, 3, MaxLen, "-") EXCEPT !.level = "SOL_SOCKET"]>>
        ELSE <<>>)
       \o (IF m.first = "ERRINFO" THEN errinfo \o retdata ELSE retdata \o errinfo)
       \o (IF m.dest.some THEN <<Cmsg(TIPC_DESTNAME, SizeOfNameSeq, 0, 0, m.dest.val)>> ELSE <<>>)

\* the body of the `for (ty, level, data) in cmsgs(&msg)` loop of recv_msg
OnCmsgNoErrInfo(acc, c, blen) ==
    IF c.level = "SOL_TIPC" /\ c.ty = TIPC_DESTNAME /\ c.dlen = SizeOfNameSeq
    THEN [acc EXCEPT !.service = SomeSvc(c.svc)]
    ELSE acc
OnCmsg(acc, c, blen) ==
    IF c.level /= "SOL_TIPC" THEN acc
    ELSE IF c.ty = TIPC_ERRINFO /\ c.dlen = SizeOfU32 * 2
         THEN [acc EXCEPT !.err = SomeInt(c.w1), !.errLen = SomeInt(c.w2)]
    ELSE IF c.ty = TIPC_RETDATA /\ SomeInt(c.dlen) = acc.errLen
         THEN [acc EXCEPT !.copied = IF blen < acc.errLen.val THEN blen ELSE acc.errLen.val]
    ELSE IF c.ty = TIPC_DESTNAME /\ c.dlen = SizeOfNameSeq
         THEN [acc EXCEPT !.service = SomeSvc(c.svc)]
    ELSE acc

RECURSIVE CmsgLoop(_, _, _, _)
CmsgLoop(cs, i, acc, blen) ==
    IF i > Len(cs) THEN acc
    ELSE CmsgLoop(cs, i + 1, OnCmsg(acc, cs[i], blen), blen)

\* io::Result<(RecvMsg, SocketAddr)>; "Panic" is an unwrap() on None
MsgResult(kind, why) ==
    [kind |-> kind, why |-> why, len |-> 0, err |-> 0, service |-> NoneSvc,
     member |-> "-", addr |-> "-", copied |-> 0]
MsgErr(why) == MsgResult("Err", why)

\* Socket::recv_msg on the message m
RecvMsg(m) ==
    IF m.rc < 0 THEN MsgErr("os error")
    ELSE LET member_id == IF m.slots = 2 THEN SomeSvc(m.slot1) ELSE NoneSvc
             sock_id == m.slot0
             acc == CmsgLoop(Cmsgs(m), 1,
                             [err |-> NoneInt, errLen |-> NoneInt, service |-> NoneSvc, copied |-> 0],
                             m.blen)
         IN IF m.oob
            THEN IF m.rc /= 0 THEN MsgErr("unexpected OOB data")
                 ELSE IF ~member_id.some THEN MsgResult("Panic", "unwrap on None")
                 ELSE [MsgResult(IF m.eor THEN "MemberLeave" ELSE "MemberJoin", "-")
                          EXCEPT !.member = member_id.val, !.addr = sock_id]
            ELSE IF acc.err.some
                 THEN IF m.gsn
                      THEN [MsgResult("Rejected", "-") EXCEPT !.err = acc.err.val,
                               !.service = acc.service, !.addr = "local", !.copied = acc.copied]
                      ELSE [MsgErr("os error") EXCEPT !.copied = acc.copied]
                 ELSE [MsgResult("Message", "-") EXCEPT !.len = m.rc,
                          !.service = acc.service, !.addr = sock_id, !.copied = acc.copied]

\* Socket::recv_from: the match on self.recv_msg(buf, flags)?
RecvFrom(r) ==
    IF r.kind \in {"Err", "Panic"} THEN r
    ELSE IF r.kind = "Message"
         THEN [MsgResult("Ok", "-") EXCEPT !.len = r.len, !.addr = r.addr, !.copied = r.copied]
    ELSE IF r.kind = "Rejected"
         THEN [MsgErr("Rejected") EXCEPT !.err = r.err, !.copied = r.copied]
    ELSE [MsgErr("unexpected group event") EXCEPT !.copied = r.copied]

\* Socket::recv_from_vectored on the message m, whose buffers hold blen bytes
\* together: the name area has room for one address, and of the control
\* messages only DESTNAME is looked for
RecvFromVectored(m) ==
    IF m.rc < 0 THEN MsgErr("os error")
    ELSE [MsgResult("Ok", "-") EXCEPT !.len = m.rc, !.addr = m.slot0, !.service = m.dest]

NoMsg == [called |-> FALSE,
          msg |-> [blen |-> 0, rc |-> -1, oob |-> FALSE, eor |-> FALSE, slots |-> 1,
                   slot0 |-> "peer", slot1 |-> "zeroed", err |-> 0, retlen |-> 0,
                   retdata |-> 0, first |-> "ERRINFO", extra |-> "-",
                   dest |-> NoneSvc, gsn |-> TRUE],
          out |-> MsgErr("os error"),
          from |-> MsgErr("os error"),
          vec |-> MsgErr("os error")]

\* ---------------------------------------------------------------- SpecTopo
\* ffi::TIPC_SUB_PORTS, TIPC_SUB_SERVICE, TIPC_SUB_CANCEL, TIPC_WAIT_FOREVER,
\* TIPC_PUBLISHED, TIPC_WITHDRAWN, TIPC_SUBSCR_TIMEOUT
TIPC_SUB_PORTS == 1
TIPC_SUB_SERVICE == 2
TIPC_SUB_CANCEL == 4
TIPC_WAIT_FOREVER == -1
TIPC_PUBLISHED == 1
TIPC_WITHDRAWN == 2
TIPC_SUBSCR_TIMEOUT == 3
\* mem::size_of::<ffi::tipc_subscr>() and mem::size_of::<ffi::tipc_event>()
SizeOfSubscr == 28
SizeOfEvent == 48

\* a u32 is a pair <<hi, lo>> of 16-bit limbs, a u64 four limbs and the u128
\* of Duration::as_millis as many limbs as it needs, most significant first
Limb == 256 * 256
\* `x as u32` of an i32
I32AsU32(x) == <<(x \div Limb) % Limb, x % Limb>>
\* `x as u32` of a wider unsigned integer keeps the two low limbs
AsU32(x) == <<x[Len(x) - 1], x[Len(x)]>>

\* Duration: whole milliseconds and whether a sub-millisecond part is left
\* Duration::as_millis drops the sub-millisecond part
AsMillis(d) == d.ms
\* Duration::from_millis of a u64 (a Duration keeps three limbs of milliseconds)
FromMillis(x) == [ms |-> Tail(x), frac |-> 0]

NoneDur == [some |-> FALSE, val |-> [ms |-> <<0, 0, 0>>, frac |-> 0]]
SomeDur(d) == [some |-> TRUE, val |-> d]

HasBit(x, b) == (x \div b) % 2 = 1

\* u64::to_ne_bytes / u64::from_ne_bytes in the byte order of the machine
RECURSIVE Reverse(_)
Reverse(q) == IF q = <<>> THEN <<>> ELSE Append(Reverse(Tail(q)), Head(q))
BeBytes(u) == [i \in 1 .. 2 * Len(u) |->
                  IF i % 2 = 1 THEN u[(i + 1) \div 2] \div 256 ELSE u[i \div 2] % 256]
ToNeBytes(u, endian) == IF endian = "big" THEN BeBytes(u) ELSE Reverse(BeBytes(u))
FromBeBytes(bs) == [i \in 1 .. Len(bs) \div 2 |-> bs[2 * i - 1] * 256 + bs[2 * i]]
FromNeBytes(bs, endian) == IF endian = "big" THEN FromBeBytes(bs) ELSE FromBeBytes(Reverse(bs))

\* `sub.filter as u32` of enum Filter { All = TIPC_SUB_PORTS, Edge = TIPC_SUB_SERVICE }
FilterAsU32Swapped(f) == IF f = "All" THEN TIPC_SUB_SERVICE ELSE TIPC_SUB_PORTS
FilterAsU32(f) == IF f = "All" THEN TIPC_SUB_PORTS ELSE TIPC_SUB_SERVICE

\* From<Subscription> for ffi::tipc_subscr
SubscrFrom(sub, endian) ==
    [seq |-> sub.service,
     timeout |-> IF sub.timeout.some THEN AsU32(AsMillis(sub.timeout.val))
                 ELSE I32AsU32(TIPC_WAIT_FOREVER),
     filter |-> FilterAsU32(sub.filter),
     usr_handle |-> ToNeBytes(sub.userdata, endian)]

\* From<ffi::tipc_subscr> for Subscription
SubscriptionFrom(rec, endian) ==
    [service |-> rec.seq,
     timeout |-> IF rec.timeout = <<0, 0>> THEN NoneDur
                 ELSE SomeDur(FromMillis(<<0, 0>> \o rec.timeout)),
     filter |-> IF HasBit(rec.filter, TIPC_SUB_PORTS) THEN "All" ELSE "Edge",
     userdata |-> FromNeBytes(rec.usr_handle, endian)]

\* the subscriptions a caller passes in
Timeouts ==
    {NoneDur} \cup
    {SomeDur([ms |-> ms, frac |-> fr]) :
        ms \in {<<0, 0, 0>>, <<0, 0, 1000>>, <<0, 65535, 65535>>, <<1, 0, 0>>}, fr \in {0, 1}}
Subscriptions ==
    [service : {[type |-> 0, lower |-> 0, upper |-> 7], [type |-> 5, lower |-> 2, upper |-> 2]},
     timeout : Timeouts,
     filter : {"All", "Edge"},
     userdata : {<<0, 0, 0, 0>>, <<1, 2, 3, 258>>}]

NoSub == [service |-> [type |-> 0, lower |-> 0, upper |-> 0], timeout |-> NoneDur,
          filter |-> "All", userdata |-> <<0, 0, 0, 0>>]
NoEvent == [event |-> 0, found_lower |-> 0, found_upper |-> 0,
            port |-> [ref |-> 0, node |-> 0], s |-> SubscrFrom(NoSub, "little")]

\* io::Result<Subscription>, io::Result<()> and io::Result<Event>
TopoResult(kind, ekind, why) ==
    [kind |-> kind, ekind |-> ekind, why |-> why,
     service |-> [type |-> 0, lower |-> 0, upper |-> 0],
     sock |-> [port |-> 0, node |-> 0],
     subscription |-> NoSub]
TopoErr(ekind, why) == TopoResult("Err", ekind, why)

\* endian: the byte order of the machine; registered, sub, rec: whether the
\* topology server holds a subscription of this connection, the Subscription
\* it was made from and the record the server keeps; op, arg, sent, size, evt,
\* sends, res: the last call, its argument, the record it sent, the size its
\* send or recv returned, the event it read, the number of send syscalls it
\* made, the result of the subscribe, unsubscribe or Server::recv in it, and
\* what the caller got
NoTopo(endian) ==
    [endian |-> endian, registered |-> FALSE, sub |-> NoSub,
     rec |-> SubscrFrom(NoSub, endian), op |-> "-", arg |-> NoSub,
     sent |-> SubscrFrom(NoSub, endian), size |-> 0, sends |-> 0, evt |-> NoEvent,
     res |-> TopoResult("-", "-", "-"), got |-> TopoResult("-", "-", "-")]

\* the libc::send of subscribe / unsubscribe; sizes holds what this and the
\* following send syscalls would return
SendRetried(sizes) ==
    IF Head(sizes) = SizeOfSubscr \/ Len(sizes) = 1
    THEN [size |-> Head(sizes), calls |-> 1]
    ELSE [size |-> sizes[2], calls |-> 2]
Send(sizes) == [size |-> Head(sizes), calls |-> 1]

\* the `.and_then(|size| ...)` after the send of subscribe / unsubscribe
SendResult(size, ok, why) ==
    IF size < 0 THEN TopoErr("Os", "os error")
    ELSE IF size = SizeOfSubscr THEN ok
    ELSE TopoErr("Other", why)

\* Server::subscribe(sub); sizes is what libc::send returns (the model follows
\* one subscription at a time)
Subscribe(sub, sizes) ==
    /\ ~tp.registered
    /\ LET subscr == SubscrFrom(sub, tp.endian)
           size == Send(sizes).size
           res == SendResult(size, [TopoResult("Ok", "-", "-") EXCEPT !.subscription = sub],
                             "subscribe failed")
       IN tp' = [tp EXCEPT !.op = "subscribe", !.arg = sub, !.sent = subscr, !.size = size,
                           !.sends = Send(sizes).calls, !.evt = NoEvent, !.res = res, !.got = res,
                           !.registered = (size = SizeOfSubscr),
                           !.sub = IF size = SizeOfSubscr THEN sub ELSE @,
                           !.rec = IF size = SizeOfSubscr THEN subscr ELSE @]
    /\ UNCHANGED <<facadeVars, cn, rm, wt, dg, on, ad>>

\* Server::unsubscribe(sub) of the subscription made before; the topology
\* server clears the CANCEL bit of the record it gets and drops the
\* subscription whose record equals the rest
UnsubscrFrom(sub, endian) ==
    [SubscrFrom(sub, endian) EXCEPT !.filter = TIPC_SUB_CANCEL]

Unsubscribe(sizes) ==
    /\ tp.registered
    /\ LET subscr == UnsubscrFrom(tp.sub, tp.endian)
           size == Send(sizes).size
           res == SendResult(size, TopoResult("Ok", "-", "-"), "unsubscribe failed")
           found == size = SizeOfSubscr
                    /\ [subscr EXCEPT !.filter = (IF HasBit(@, TIPC_SUB_CANCEL) THEN @ - TIPC_SUB_CANCEL ELSE @)] = tp.rec
       IN tp' = [tp EXCEPT !.op = "unsubscribe", !.arg = tp.sub, !.sent = subscr,
                           !.size = size, !.sends = Send(sizes).calls,
                           !.evt = NoEvent, !.res = res, !.got = res,
                           !.registered = ~found,
                           !.sub = IF found THEN NoSub ELSE @,
                           !.rec = IF found THEN SubscrFrom(NoSub, tp.endian) ELSE @]
    /\ UNCHANGED <<facadeVars, cn, rm, wt, dg, on, ad>>

\* the size check of Server::recv
RecvSizeAtMost(size) == size <= SizeOfEvent
RecvSizeOk(size) == size = SizeOfEvent

\* ServiceRange::new
ServiceRangeNew(ty, lower, upper) == [type |-> ty, lower |-> lower, upper |-> upper]

\* Server::recv on a read of `size` bytes that holds the event evt
ServerRecv(size, evt, endian) ==
    IF size < 0 THEN TopoErr("Os", "os error")
    ELSE IF ~RecvSizeOk(size) THEN TopoErr("Other", "receive event failed")
    ELSE IF evt.event = TIPC_SUBSCR_TIMEOUT THEN TopoErr("TimedOut", "receive event timed out")
    ELSE IF evt.event \in {TIPC_PUBLISHED, TIPC_WITHDRAWN}
         THEN [TopoResult(IF evt.event = TIPC_PUBLISHED THEN "Published" ELSE "Withdrawn",
                          "-", "-")
                  EXCEPT !.service = ServiceRangeNew(evt.s.seq.type, evt.found_lower,
                                                     evt.found_upper),
                         !.sock = [port |-> evt.port.ref, node |-> evt.port.node],
                         !.subscription = SubscriptionFrom(evt.s, endian)]
    ELSE TopoErr("Other", "unexpect event")

\* the topology server reports on the registered subscription, echoing its
\* record; a SUBSCR_TIMEOUT event tells that the server has removed it
Recv(size, code, found, port) ==
    /\ tp.registered
    /\ LET evt == [event |-> code, found_lower |-> found[1], found_upper |-> found[2],
                   port |-> port, s |-> tp.rec]
           expired == size = SizeOfEvent /\ code = TIPC_SUBSCR_TIMEOUT
       IN tp' = [tp EXCEPT !.op = "recv", !.arg = NoSub, !.sent = SubscrFrom(NoSub, tp.endian),
                           !.size = size, !.sends = 0, !.evt = evt,
                           !.res = ServerRecv(size, evt, tp.endian),
                           !.got = ServerRecv(size, evt, tp.endian),
                           !.registered = ~expired,
                           !.sub = IF expired THEN NoSub ELSE @,
                           !.rec = IF expired THEN SubscrFrom(NoSub, tp.endian) ELSE @]
    /\ UNCHANGED <<facadeVars, cn, rm, wt, dg, on, ad>>

\* Result::ok: an Option that keeps the value and forgets the error
ResultOk(res) == IF res.kind = "Err" THEN TopoResult("None", "-", "-") ELSE res

\* From<Event> for Node, under the `.map(Node::from)` of Nodes::recv
NodesRecv(res) ==
    IF res.kind = "Err" THEN res
    ELSE [TopoResult(IF res.kind = "Published" THEN "Up" ELSE "Down", "-", "-")
             EXCEPT !.sock = [port |-> 0, node |-> res.sock.node]]

\* Iterator::next of Events (it = "events") and of Nodes (it = "nodes") on a
\* read of `size` bytes
IterNext(it, size, code, found, port) ==
    /\ tp.registered
    /\ LET evt == [event |-> code, found_lower |-> found[1], found_upper |-> found[2],
                   port |-> port, s |-> tp.rec]
           expired == size = SizeOfEvent /\ code = TIPC_SUBSCR_TIMEOUT
           res == ServerRecv(size, evt, tp.endian)
       IN tp' = [tp EXCEPT !.op = it, !.arg = NoSub, !.sent = SubscrFrom(NoSub, tp.endian),
                           !.size = size, !.sends = 0, !.evt = evt, !.res = res,
                           !.got = ResultOk(IF it = "nodes" THEN NodesRecv(res) ELSE res),
                           !.registered = ~expired,
                           !.sub = IF expired THEN NoSub ELSE @,
                           !.rec = IF expired THEN SubscrFrom(NoSub, tp.endian) ELSE @]
    /\ UNCHANGED <<facadeVars, cn, rm, wt, dg, on, ad>>

\* topo::wait has not been called: scope and timeout are its arguments, pc
\* its position; sent holds the records it sent, queue the events (with the
\* size their recv returns) waiting on its connection, consumed the ones its
\* recv calls took, in order, expired whether the server has removed the
\* subscription, res its result
NoWait ==
    [scope |-> [global |-> TRUE, node |-> 0], timeout |-> NoneDur, pc |-> "-",
     sent |-> <<>>, queue |-> <<>>, consumed |-> <<>>, expired |-> FALSE,
     res |-> [kind |-> "-", ekind |-> "-", value |-> FALSE]]

\* a datagram socket on which nothing was called yet: droppable is the value
\* of its TIPC_DEST_DROPPABLE option (the kernel's default for connectionless
\* sockets is 1), rejectable the argument of the last set_rejectable that
\* succeeded, queue the messages waiting on it; op, arg, ok, sas, sent and
\* res: the last call, its argument, whether its syscalls succeeded, the
\* sockaddr_tipc records it passed to the kernel, what became of the datagram
\* it sent and its result
NoDgram ==
    [droppable |-> 1, rejectable |-> "-", queue |-> <<>>, op |-> "-", arg |-> "-",
     ok |-> TRUE, sas |-> <<>>, sent |-> "-", res |-> "-"]

\* no thread has called own_node: once is the state of OWN_NODE_INIT, value
\* that of OWN_NODE, queries the number of times the closure ran (creating
\* and querying the SOCK_RDM socket), failed whether that attempt failed; pc,
\* ret: the position of each thread and the values own_node returned to it
OwnThreads == {1, 2}
NoOwnNode ==
    [once |-> "incomplete", value |-> 0, queries |-> 0, failed |-> FALSE,
     pc |-> [t \in OwnThreads |-> "idle"],
     ret |-> [t \in OwnThreads |-> <<>>]]

TopoInit ==
    /\ FacadeInit
    /\ ad = NoAddr
    /\ cn = NoConn
    /\ rm = NoMsg
    /\ wt = NoWait
    /\ dg = NoDgram
    /\ on = NoOwnNode
    /\ tp \in {NoTopo("little"), NoTopo("big")}

TopoNext ==
    \/ \E sub \in Subscriptions, sizes \in [1 .. MaxSends -> {-1, SizeOfSubscr - 1, SizeOfSubscr}] : Subscribe(sub, sizes)
    \/ \E sizes \in [1 .. MaxSends -> {-1, SizeOfSubscr - 1, SizeOfSubscr}] : Unsubscribe(sizes)
    \/ \E size \in {-1, 0, SizeOfSubscr, SizeOfEvent - 1, SizeOfEvent},
          code \in 0 .. 4, found \in {<<2, 2>>, <<3, 6>>},
          port \in {[ref |-> 9, node |-> 4]} : Recv(size, code, found, port)
    \/ \E it \in {"events", "nodes"}, size \in {-1, SizeOfEvent - 1, SizeOfEvent},
          code \in 0 .. 4, found \in {<<3, 6>>},
          port \in {[ref |-> 9, node |-> 4]} : IterNext(it, size, code, found, port)

\* ---------------------------------------------------------------- SpecWait
\* io::Result<bool>
WaitResult(kind, ekind, value) == [kind |-> kind, ekind |-> ekind, value |-> value]

\* the Subscription that wait builds from its arguments; `service.into()` is
\* From<ServiceAddr> for ServiceRange
WaitSubscription(service, timeout) ==
    [service |-> ServiceRangeNew(service.type, service.instance, service.instance),
     timeout |-> timeout,
     filter |-> "Edge", userdata |-> <<0, 0, 0, 0>>]

\* the `?` after srv.recv(): an error ends the loop and is returned
PropagatedOsOnly(res) == res.kind = "Err" /\ res.ekind = "Os"
Propagated(res) == res.kind = "Err"

\* `if let Scope::Node(node) = scope { if node.get() != evt.sock().node() { continue } }`
SkippedNever(scope, res) == FALSE
Skipped(scope, res) == ~scope.global /\ scope.node # res.sock.node

\* the scopes and timeouts of the calls that are followed (the service is
\* ServiceAddr(18888, 17))
WaitScopes == {[global |-> TRUE, node |-> 0], [global |-> FALSE, node |-> 1],
               [global |-> FALSE, node |-> 2]}

\* `let srv = connect(scope)?`
WaitConnect(ok) ==
    /\ wt.pc = "connect"
    /\ IF ok THEN wt' = [wt EXCEPT !.pc = "subscribe"]
       ELSE wt' = [wt EXCEPT !.pc = "done", !.res = WaitResult("Err", "Os", FALSE)]
    /\ UNCHANGED <<facadeVars, cn, rm, tp, dg, on, ad>>

\* `srv.subscribe(Subscription { .. })?`
WaitSubscribe(sizes) ==
    /\ wt.pc = "subscribe"
    /\ LET sub == WaitSubscription([type |-> 18888, instance |-> 17], wt.timeout)
           res == SendResult(Send(sizes).size, TopoResult("Ok", "-", "-"), "subscribe failed")
           sent == Append(wt.sent, SubscrFrom(sub, "little"))
       IN IF res.kind = "Ok"
          THEN wt' = [wt EXCEPT !.pc = "recv", !.sent = sent]
          ELSE wt' = [wt EXCEPT !.pc = "done", !.sent = sent,
                                !.res = WaitResult("Err", res.ekind, FALSE)]
    /\ UNCHANGED <<facadeVars, cn, rm, tp, dg, on, ad>>

\* the topology server queues an event for the subscription (size is what the
\* recv that takes it will return)
ServerEvent(size, code, node) ==
    /\ wt.pc = "recv" /\ ~wt.expired
    /\ Len(wt.queue) + Len(wt.consumed) < MaxEvents
    /\ wt' = [wt EXCEPT !.queue = Append(@, [size |-> size,
                  evt |-> [event |-> code, found_lower |-> 17, found_upper |-> 17,
                           port |-> [ref |-> 9, node |-> node], s |-> Head(wt.sent)]])]
    /\ UNCHANGED <<facadeVars, cn, rm, tp, dg, on, ad>>

\* the subscription's timeout runs out: the server queues TIPC_SUBSCR_TIMEOUT
\* and removes the subscription
ServerExpire ==
    /\ wt.pc = "recv" /\ ~wt.expired /\ wt.timeout.some
    /\ wt' = [wt EXCEPT !.expired = TRUE,
                        !.queue = Append(@, [size |-> SizeOfEvent,
                  evt |-> [event |-> TIPC_SUBSCR_TIMEOUT, found_lower |-> 0, found_upper |-> 0,
                           port |-> [ref |-> 0, node |-> 0], s |-> Head(wt.sent)]])]
    /\ UNCHANGED <<facadeVars, cn, rm, tp, dg, on, ad>>

\* one turn of the loop: `let evt = srv.recv()?`, the scope test, the return
WaitRecv ==
    /\ wt.pc = "recv" /\ wt.queue # <<>>
    /\ LET item == Head(wt.queue)
           r == ServerRecv(item.size, item.evt, "little")
           taken == [wt EXCEPT !.queue = Tail(@), !.consumed = Append(@, item)]
       IN IF Propagated(r)
          THEN wt' = [taken EXCEPT !.pc = "done", !.res = WaitResult("Err", r.ekind, FALSE)]
          ELSE IF Skipped(wt.scope, r)
          THEN wt' = taken
          ELSE wt' = [taken EXCEPT !.pc = "done", !.res = WaitResult("Ok", "-", r.kind = "Published")]
    /\ UNCHANGED <<facadeVars, cn, rm, tp, dg, on, ad>>

WaitInit ==
    /\ FacadeInit
    /\ ad = NoAddr
    /\ cn = NoConn
    /\ dg = NoDgram
    /\ on = NoOwnNode
    /\ rm = NoMsg
    /\ tp = NoTopo("little")
    /\ wt \in {[NoWait EXCEPT !.scope = s, !.timeout = t, !.pc = "connect"] :
                 s \in WaitScopes, t \in {NoneDur, SomeDur([ms |-> <<0, 0, 1000>>, frac |-> 0])}}

\* the steps of the thread that runs wait
WaitStep ==
    \/ \E ok \in BOOLEAN : WaitConnect(ok)
    \/ \E sizes \in [1 .. MaxSends -> {-1, SizeOfSubscr - 1, SizeOfSubscr}] : WaitSubscribe(sizes)
    \/ WaitRecv

WaitNext ==
    \/ WaitStep
    \/ \E size \in {-1, SizeOfEvent}, code \in {TIPC_PUBLISHED, TIPC_WITHDRAWN},
          node \in {1, 2} : ServerEvent(size, code, node)
    \/ ServerExpire

\* ---------------------------------------------------------------- SpecSock
\* libc::AF_TIPC, addr::TIPC_SERVICE_RANGE, TIPC_SERVICE_ADDR, TIPC_SOCKET_ADDR,
\* TIPC_ADDR_MCAST; sock::TRUE and FALSE
AF_TIPC == 30
TIPC_SERVICE_RANGE == 1
TIPC_SERVICE_ADDR == 2
TIPC_SOCKET_ADDR == 3
TIPC_ADDR_MCAST == 1
SockTrue == 1
SockFalse == 0
\* the error code of a datagram returned for want of a destination
TIPC_ERR_NO_NAME == 1

\* a u32 as two 16-bit limbs; u32::max_value()
U32(n) == <<n \div Limb, n % Limb>>
U32Max == <<Limb - 1, Limb - 1>>

\* the addresses: SocketAddr(port, node), ServiceAddr(type, instance),
\* ServiceRange(type, lower, upper), a bare Type, and the pairs with a Scope
\* or a Visibility
Addrs ==
    LET socketAddrs == {[tag |-> "SocketAddr", port |-> U32(9), node |-> U32(4)],
                        [tag |-> "SocketAddr", port |-> U32Max, node |-> U32(0)]}
        serviceAddrs == {[tag |-> "ServiceAddr", type |-> U32(42), instance |-> i] :
                            i \in {U32(1), U32Max}}
        serviceRanges == {[tag |-> "ServiceRange", type |-> U32(42),
                           lower |-> r[1], upper |-> r[2]] :
                            r \in {<<U32(0), U32(7)>>, <<U32(3), U32(3)>>}}
        types == {[tag |-> "Type", type |-> U32(42)], [tag |-> "Type", type |-> U32(70000)]}
    IN socketAddrs \cup serviceAddrs \cup serviceRanges \cup types
       \cup {[tag |-> "Scope", addr |-> a, scope |-> sc] :
                a \in serviceAddrs, sc \in WaitScopes}
       \cup {[tag |-> "Visibility", addr |-> a, visibility |-> v] :
                a \in serviceAddrs \cup serviceRanges \cup types,
                v \in {"Zone", "Cluster", "Node"}}

\* From<Scope> for u32 and `visibility as i8`
ScopeAsU32(scope) == IF scope.global THEN U32(0) ELSE U32(scope.node)
VisibilityAsI8(v) == CASE v = "Zone" -> 1 [] v = "Cluster" -> 2 [] v = "Node" -> 3

\* ffi::sockaddr_tipc; words holds the three u32 of the union `addr`, which
\* are (ref, node, -) of id, (type, lower, upper) of nameseq and
\* (type, instance, domain) of name
SockaddrDefault ==
    [family |-> 0, addrtype |-> 0, scope |-> 0, words |-> <<U32(0), U32(0), U32(0)>>]

\* From<SocketAddr>, From<(ServiceAddr, Scope)> and
\* From<(ServiceRange, Visibility)> for ffi::sockaddr_tipc
SockaddrFromSocketAddr(a) ==
    [SockaddrDefault EXCEPT !.family = AF_TIPC, !.addrtype = TIPC_SOCKET_ADDR,
                            !.words = <<a.port, a.node, @[3]>>]
SockaddrFromServiceAddrNoDomain(a, scope) ==
    [SockaddrDefault EXCEPT !.family = AF_TIPC, !.addrtype = TIPC_SERVICE_ADDR,
                            !.words = <<a.type, a.instance, @[3]>>]
SockaddrFromServiceAddr(a, scope) ==
    [SockaddrDefault EXCEPT !.family = AF_TIPC, !.addrtype = TIPC_SERVICE_ADDR,
                            !.words = <<a.type, a.instance, ScopeAsU32(scope)>>]
SockaddrFromServiceRange(r, visibility) ==
    [SockaddrDefault EXCEPT !.family = AF_TIPC, !.addrtype = TIPC_SERVICE_RANGE,
                            !.scope = VisibilityAsI8(visibility),
                            !.words = <<r.type, r.lower, r.upper>>]

\* ServiceRange::with_range over an Instance and over `..`, and the From
\* impls of ServiceRange
WithRange(ty, lower, upper) ==
    [tag |-> "ServiceRange", type |-> ty, lower |-> lower, upper |-> upper]
ServiceRangeFromTypeEmpty(t) == WithRange(t.type, U32(0), U32(0))
ServiceRangeFromType(t) == WithRange(t.type, U32(0), U32Max)
IntoServiceRange(x) ==
    CASE x.tag = "ServiceRange" -> x
      [] x.tag = "ServiceAddr" -> WithRange(x.type, x.instance, x.instance)
      [] x.tag = "Type" -> ServiceRangeFromType(x)

\* Into<ffi::sockaddr_tipc> of what send_to and mcast accept
IntoSockaddr(x) ==
    CASE x.tag = "SocketAddr" -> SockaddrFromSocketAddr(x)
      [] x.tag = "ServiceAddr" -> SockaddrFromServiceAddr(x, [global |-> TRUE, node |-> 0])
      [] x.tag = "Scope" -> SockaddrFromServiceAddr(x.addr, x.scope)
      [] x.tag = "ServiceRange" -> SockaddrFromServiceRange(x, "Cluster")
      [] x.tag = "Visibility" -> SockaddrFromServiceRange(x.addr, x.visibility)

\* ToServiceRanges::to_service_ranges: an iterator over one (range, visibility)
ToServiceRanges(x) ==
    IF x.tag = "Visibility"
    THEN <<[range |-> IntoServiceRange(x.addr), visibility |-> x.visibility]>>
    ELSE <<[range |-> IntoServiceRange(x), visibility |-> "Cluster"]>>

\* the `for addr in addr.to_service_ranges()?` loop of Socket::bind; results[i]
\* is what the i-th libc::bind returns
RECURSIVE BindLoop(_, _, _)
BindLoop(ranges, results, sas) ==
    IF ranges = <<>> THEN [sas |-> sas, ok |-> TRUE]
    ELSE LET sa == SockaddrFromServiceRange(Head(ranges).range, Head(ranges).visibility)
         IN IF Head(results) < 0
            THEN [sas |-> Append(sas, sa), ok |-> FALSE]
            ELSE BindLoop(Tail(ranges), Tail(results), Append(sas, sa))

DgramCall(op, arg, ok, sas, sent, res) ==
    [dg EXCEPT !.op = op, !.arg = arg, !.ok = ok, !.sas = sas, !.sent = sent, !.res = res]

\* Datagram::set_rejectable(rejectable); ok: setsockopt succeeded
SetRejectable(rejectable, ok) ==
    /\ dg' = [DgramCall("set_rejectable", rejectable, ok, <<>>, "-", "-")
                 EXCEPT !.droppable = IF ok THEN (IF rejectable THEN SockTrue ELSE SockFalse)
                                      ELSE @,
                        !.rejectable = IF ok THEN (IF rejectable THEN "true" ELSE "false") ELSE @]
    /\ UNCHANGED <<facadeVars, cn, rm, tp, wt, on, ad>>

\* Socket::send_to(buf, addr) of len bytes; ok: sendto succeeded; exists:
\* some socket is bound to the destination. The kernel returns a datagram
\* that has no destination to its sender unless DEST_DROPPABLE is set
SendTo(addr, len, exists, ok) ==
    /\ \/ addr.tag \in {"SocketAddr", "ServiceAddr", "ServiceRange", "Scope"}
       \/ addr.tag = "Visibility" /\ addr.addr.tag = "ServiceRange"
    /\ Len(dg.queue) < MaxQueue
    /\ LET sent == IF ~ok THEN "-"
                   ELSE IF exists THEN "delivered"
                   ELSE IF dg.droppable = 0 THEN "returned" ELSE "dropped"
       IN dg' = [DgramCall("send_to", addr, ok, <<IntoSockaddr(addr)>>, sent, "-")
                   EXCEPT !.queue = IF sent = "returned"
                                    THEN Append(@, [err |-> TIPC_ERR_NO_NAME, retlen |-> len])
                                    ELSE @]
    /\ UNCHANGED <<facadeVars, cn, rm, tp, wt, on, ad>>

\* Socket::mcast(buf, addr)
Mcast(addr, ok) ==
    /\ \/ addr.tag \in {"SocketAddr", "ServiceAddr", "ServiceRange", "Scope"}
       \/ addr.tag = "Visibility" /\ addr.addr.tag = "ServiceRange"
    /\ dg' = DgramCall("mcast", addr, ok,
                       <<[IntoSockaddr(addr) EXCEPT !.addrtype = TIPC_ADDR_MCAST]>>, "-", "-")
    /\ UNCHANGED <<facadeVars, cn, rm, tp, wt, on, ad>>

\* Socket::bind(addr)
Bind(addr, results) ==
    /\ addr.tag \in {"ServiceAddr", "ServiceRange", "Type", "Visibility"}
    /\ LET b == BindLoop(ToServiceRanges(addr), results, <<>>)
       IN dg' = DgramCall("bind", addr, b.ok, b.sas, "-", "-")
    /\ UNCHANGED <<facadeVars, cn, rm, tp, wt, on, ad>>

\* recv_from(buf) with a buffer of blen bytes takes the returned datagram at
\* the head of the queue
DgramRecvFrom(blen) ==
    /\ dg.queue # <<>>
    /\ LET m == [blen |-> blen, rc |-> 0, oob |-> FALSE, eor |-> FALSE, slots |-> 1,
                 slot0 |-> "peer", slot1 |-> "zeroed", err |-> Head(dg.queue).err,
                 retlen |-> Head(dg.queue).retlen, retdata |-> Head(dg.queue).retlen,
                 first |-> "ERRINFO", extra |-> "-", dest |-> NoneSvc, gsn |-> TRUE]
       IN dg' = [DgramCall("recv_from", blen, TRUE, <<>>, "-", RecvFrom(RecvMsg(m)))
                   EXCEPT !.queue = Tail(@)]
    /\ UNCHANGED <<facadeVars, cn, rm, tp, wt, on, ad>>

SockInit ==
    /\ FacadeInit
    /\ ad = NoAddr
    /\ cn = NoConn
    /\ rm = NoMsg
    /\ tp = NoTopo("little")
    /\ wt = NoWait
    /\ on = NoOwnNode
    /\ dg = NoDgram

SockNext ==
    \/ \E rejectable \in BOOLEAN, ok \in BOOLEAN : SetRejectable(rejectable, ok)
    \/ \E addr \in Addrs, len \in 0 .. MaxLen, exists \in BOOLEAN, ok \in BOOLEAN :
          SendTo(addr, len, exists, ok)
    \/ \E addr \in Addrs, ok \in BOOLEAN : Mcast(addr, ok)
    \/ \E addr \in Addrs, results \in [1 .. 1 -> {-1, 0}] : Bind(addr, results)
    \/ \E blen \in 0 .. MaxLen : DgramRecvFrom(blen)

\* ---------------------------------------------------------------- SpecAddr
\* `{}`, `{:010}` and `{:x}` of a u32: its digits in the radix, most
\* significant first, padded with zeros to the width
RECURSIVE FmtU32(_, _, _)
FmtU32(x, radix, width) ==
    LET digits == <<"0", "1", "2", "3", "4", "5", "6", "7", "8", "9",
                    "a", "b", "c", "d", "e", "f">>
        t == (x[1] % radix) * Limb + x[2]
        q == <<x[1] \div radix, t \div radix>>
        d == <<digits[(t % radix) + 1]>>
    IN IF q = <<0, 0>> /\ width <= 1 THEN d ELSE FmtU32(q, radix, width - 1) \o d

\* fmt::Display for SocketAddr, ServiceAddr and ServiceRange
DisplayNodeDecimal(a) ==
    CASE a.tag = "SocketAddr" ->
            <<"0", ":">> \o FmtU32(a.port, 10, 10) \o <<"@">> \o FmtU32(a.node, 10, 1)
      [] a.tag = "ServiceAddr" ->
            FmtU32(a.type, 10, 1) \o <<":">> \o FmtU32(a.instance, 10, 1)
            \o <<"@">> \o FmtU32(U32(0), 10, 1)
      [] a.tag = "ServiceRange" ->
            FmtU32(a.type, 10, 1) \o <<":">> \o FmtU32(a.lower, 10, 1) \o <<":">>
            \o FmtU32(a.upper, 10, 1) \o <<"@">> \o FmtU32(U32(0), 10, 1)
Display(a) ==
    CASE a.tag = "SocketAddr" ->
            <<"0", ":">> \o FmtU32(a.port, 10, 10) \o <<"@">> \o FmtU32(a.node, 16, 1)
      [] a.tag = "ServiceAddr" ->
            FmtU32(a.type, 10, 1) \o <<":">> \o FmtU32(a.instance, 10, 1)
            \o <<"@">> \o FmtU32(U32(0), 16, 1)
      [] a.tag = "ServiceRange" ->
            FmtU32(a.type, 10, 1) \o <<":">> \o FmtU32(a.lower, 10, 1) \o <<":">>
            \o FmtU32(a.upper, 10, 1) \o <<"@">> \o FmtU32(U32(0), 16, 1)

\* u32::from_str_radix(s, radix): an optional `+`, then at least one digit of
\* the radix; a value above u32::MAX is an error too
FromStrRadix(s, radix) ==
    LET digits == <<"0", "1", "2", "3", "4", "5", "6", "7", "8", "9",
                    "a", "b", "c", "d", "e", "f">>
        RECURSIVE Acc(_, _)
        Acc(r, acc) ==
            IF r = <<>> THEN [ok |-> TRUE, val |-> acc]
            ELSE LET ds == {i \in 0 .. radix - 1 : digits[i + 1] = Head(r)}
                     lo == acc[2] * radix + (CHOOSE i \in ds : TRUE)
                     hi == acc[1] * radix + lo \div Limb
                 IN IF ds = {} \/ hi >= Limb THEN [ok |-> FALSE, val |-> acc]
                    ELSE Acc(Tail(r), <<hi, lo % Limb>>)
        body == IF s /= <<>> /\ Head(s) = "+" THEN Tail(s) ELSE s
    IN IF body = <<>> THEN [ok |-> FALSE, val |-> U32(0)] ELSE Acc(body, U32(0))

\* str::splitn(n, c): at most n pieces, the last one the rest of the string
RECURSIVE Splitn(_, _, _)
Splitn(s, n, c) ==
    LET at == {i \in 1 .. Len(s) : s[i] = c}
    IN IF n <= 1 \/ at = {} THEN <<s>>
       ELSE LET i == CHOOSE j \in at : \A k \in at : j <= k
            IN <<SubSeq(s, 1, i - 1)>> \o Splitn(SubSeq(s, i + 1, Len(s)), n - 1, c)

\* FromStr for SocketAddr, ServiceAddr and ServiceRange: Ok(address) or the
\* AddrParseError
FromStr(tag, s) ==
    LET err(e) == [ok |-> FALSE, tag |-> e, val |-> NoHandle]
        p == Splitn(s, IF tag = "ServiceRange" THEN 3 ELSE 2, ":")
        q == Splitn(p[Len(p)], 2, "@")
        first == FromStrRadix(p[1], 10)
        second == FromStrRadix(p[2], 10)
        third == FromStrRadix(q[1], 10)
        node == FromStrRadix(q[2], 16)
    IN CASE tag = "SocketAddr" ->
              IF Len(p) < 2 THEN err("MissingRef")
              ELSE IF ~third.ok THEN err("InvalidRef")
              ELSE IF Len(q) < 2 THEN err("MissingNode")
              ELSE IF ~node.ok THEN err("InvalidNode")
              ELSE [ok |-> TRUE, tag |-> tag,
                    val |-> [tag |-> tag, port |-> third.val, node |-> node.val]]
         [] tag = "ServiceAddr" ->
              IF ~first.ok THEN err("InvalidType")
              ELSE IF Len(p) < 2 THEN err("MissingInstance")
              ELSE IF ~third.ok THEN err("InvalidInstance")
              ELSE [ok |-> TRUE, tag |-> tag,
                    val |-> [tag |-> tag, type |-> first.val, instance |-> third.val]]
         [] tag = "ServiceRange" ->
              IF ~first.ok THEN err("InvalidType")
              ELSE IF Len(p) < 2 THEN err("MissingInstance")
              ELSE IF ~second.ok THEN err("InvalidInstance")
              ELSE IF Len(p) < 3 THEN err("MissingInstance")
              ELSE IF ~third.ok THEN err("InvalidInstance")
              ELSE [ok |-> TRUE, tag |-> tag,
                    val |-> [tag |-> tag, type |-> first.val, lower |-> second.val,
                             upper |-> third.val]]

\* ToInstanceRange for Instance, Range<Instance>, RangeTo<Instance>,
\* RangeFrom<Instance> and RangeFull: <<lower(), upper()>>
ToInstanceRange(r) ==
    CASE r.kind = "Instance" -> <<r.start, r.start>>
      [] r.kind = "Range" -> <<r.start, r.end>>
      [] r.kind = "RangeTo" -> <<U32(0), r.end>>
      [] r.kind = "RangeFrom" -> <<r.start, U32Max>>
      [] r.kind = "RangeFull" -> <<U32(0), U32Max>>

\* ServiceRange::new(ty, lower, upper)
AddrNew(ty, lower, upper) ==
    /\ ad' = [NoAddr EXCEPT !.op = "new",
                            !.out = [ok |-> TRUE, tag |-> "ServiceRange",
                                     val |-> ServiceRangeNew(ty, lower, upper)]]
    /\ UNCHANGED <<facadeVars, cn, rm, tp, wt, dg, on>>

\* ServiceRange::with_range(ty, range) and From<(Type, T)> for ServiceRange
AddrWithRange(ty, range) ==
    /\ ad' = [NoAddr EXCEPT !.op = "with_range",
                            !.out = [ok |-> TRUE, tag |-> "ServiceRange",
                                     val |-> WithRange(ty, ToInstanceRange(range)[1],
                                                       ToInstanceRange(range)[2])]]
    /\ UNCHANGED <<facadeVars, cn, rm, tp, wt, dg, on>>

\* From<Type> and From<ServiceAddr> for ServiceRange
AddrFrom(x) ==
    /\ x.tag \in {"Type", "ServiceAddr"}
    /\ ad' = [NoAddr EXCEPT !.op = "from", !.arg = x,
                            !.out = [ok |-> TRUE, tag |-> "ServiceRange",
                                     val |-> IntoServiceRange(x)]]
    /\ UNCHANGED <<facadeVars, cn, rm, tp, wt, dg, on>>

\* a.to_string()
AddrToString(a) ==
    /\ ad' = [NoAddr EXCEPT !.op = "to_string", !.shown = TRUE, !.arg = a,
                            !.text = Display(a)]
    /\ UNCHANGED <<facadeVars, cn, rm, tp, wt, dg, on>>

\* text.parse::<SocketAddr>(), ::<ServiceAddr>() and ::<ServiceRange>() of the
\* text at hand
AddrFromStr(tag) ==
    /\ ad.op \in {"-", "to_string"}
    /\ ad' = [ad EXCEPT !.op = "from_str", !.ty = tag, !.out = FromStr(tag, ad.text)]
    /\ UNCHANGED <<facadeVars, cn, rm, tp, wt, dg, on>>

\* the texts a caller parses that no Display wrote: "0:123@1c8", "42:5:3@0",
\* "42:+7@0", "42", "", "42:x@0", "0:4294967296@0", "0:9", "0:9@g" and "1:2:@0"
AddrInit ==
    /\ FacadeInit
    /\ cn = NoConn
    /\ rm = NoMsg
    /\ tp = NoTopo("little")
    /\ wt = NoWait
    /\ dg = NoDgram
    /\ on = NoOwnNode
    /\ ad \in {[NoAddr EXCEPT !.text = s] :
                 s \in {<<"0", ":", "1", "2", "3", "@", "1", "c", "8">>,
                        <<"4", "2", ":", "5", ":", "3", "@", "0">>,
                        <<"4", "2", ":", "+", "7", "@", "0">>,
                        <<"4", "2">>, <<>>,
                        <<"4", "2", ":", "x", "@", "0">>,
                        <<"0", ":", "4", "2", "9", "4", "9", "6", "7", "2", "9", "6", "@", "0">>,
                        <<"0", ":", "9">>, <<"0", ":", "9", "@", "g">>,
                        <<"1", ":", "2", ":", "@", "0">>}}

AddrNext ==
    \/ \E ty \in {U32(42)}, lower \in {U32(0), U32(3), U32Max}, upper \in {U32(0), U32(3), U32Max} :
          AddrNew(ty, lower, upper)
    \/ \E ty \in {U32(42)}, kind \in {"Instance", "Range", "RangeTo", "RangeFrom", "RangeFull"},
          start \in {U32(0), U32(3), U32Max}, end \in {U32(0), U32(3), U32Max} :
          AddrWithRange(ty, [kind |-> kind, start |-> start, end |-> end])
    \/ \E x \in Addrs : AddrFrom(x)
    \/ \E tag \in {"SocketAddr", "ServiceAddr", "ServiceRange"},
          w \in [1 .. 3 -> {U32(0), U32(123), U32(456), U32(70000), U32Max}] :
          AddrToString(CASE tag = "SocketAddr" -> [tag |-> tag, port |-> w[1], node |-> w[2]]
                         [] tag = "ServiceAddr" -> [tag |-> tag, type |-> w[1], instance |-> w[2]]
                         [] tag = "ServiceRange" -> [tag |-> tag, type |-> w[1], lower |-> w[2],
                                                     upper |-> w[3]])
    \/ \E tag \in {"SocketAddr", "ServiceAddr", "ServiceRange"} : AddrFromStr(tag)

SpecAddr == AddrInit /\ [][AddrNext]_vars

\* ----------------------------------------------------------------- SpecOwn
\* Once::call_once runs its closure only if no call has started running one;
\* a caller that finds one running waits until it has completed
CallOnceRunsUnlessComplete(once) == once # "complete"
CallOnceRuns(once) == once = "incomplete"

\* `.map(|addr| addr.node()).unwrap_or(0)`; result is -1 when sock::new or
\* local_addr failed, else the node that getsockname reports
UnwrapOr0(result) == IF result < 0 THEN 0 ELSE result

\* a thread calls own_node()
OwnCall(t) ==
    /\ on.pc[t] = "idle" /\ Len(on.ret[t]) < MaxCalls
    /\ on' = [on EXCEPT !.pc[t] = "call_once"]
    /\ UNCHANGED <<facadeVars, cn, rm, tp, wt, dg, ad>>

\* OWN_NODE_INIT.call_once: the thread starts the closure, or finds it done
CallOnce(t) ==
    /\ on.pc[t] = "call_once"
    /\ \/ /\ CallOnceRuns(on.once)
          /\ on' = [on EXCEPT !.once = "running", !.pc[t] = "closure"]
       \/ /\ on.once = "complete"
          /\ on' = [on EXCEPT !.pc[t] = "read"]
    /\ UNCHANGED <<facadeVars, cn, rm, tp, wt, dg, ad>>

\* the closure: sock::new(SOCK_RDM), local_addr, the store to OWN_NODE; when
\* it returns the Once is complete
Closure(t, result) ==
    /\ on.pc[t] = "closure"
    /\ on' = [on EXCEPT !.value = UnwrapOr0(result), !.queries = @ + 1,
                        !.failed = (result < 0),
                        !.once = "complete", !.pc[t] = "read"]
    /\ UNCHANGED <<facadeVars, cn, rm, tp, wt, dg, ad>>

\* the read of OWN_NODE that own_node returns
OwnRead(t) ==
    /\ on.pc[t] = "read"
    /\ on' = [on EXCEPT !.ret[t] = Append(@, on.value), !.pc[t] = "idle"]
    /\ UNCHANGED <<facadeVars, cn, rm, tp, wt, dg, ad>>

OwnInit ==
    /\ FacadeInit
    /\ ad = NoAddr
    /\ cn = NoConn
    /\ rm = NoMsg
    /\ tp = NoTopo("little")
    /\ wt = NoWait
    /\ dg = NoDgram
    /\ on = NoOwnNode

OwnNext ==
    \/ \E t \in OwnThreads : OwnCall(t)
    \/ \E t \in OwnThreads : CallOnce(t)
    \/ \E t \in OwnThreads, result \in {-1, 5, 6} : Closure(t, result)
    \/ \E t \in OwnThreads : OwnRead(t)

\* ----------------------------------------------- SpecMsg: initial state, step
\* the message that recvmsg is about to hand back
MsgInit ==
    /\ FacadeInit
    /\ ad = NoAddr
    /\ cn = NoConn
    /\ wt = NoWait
    /\ dg = NoDgram
    /\ on = NoOwnNode
    /\ tp = NoTopo("little")
    /\ rm \in {[NoMsg EXCEPT !.msg = m] : m \in {x \in Messages : x.rc <= x.blen}}

\* the message is received, by recv_msg, by recv_from and by recv_from_vectored
Receive ==
    /\ ~rm.called
    /\ rm' = [rm EXCEPT !.called = TRUE,
                        !.out = RecvMsg(rm.msg),
                        !.from = RecvFrom(RecvMsg(rm.msg)),
                        !.vec = RecvFromVectored(rm.msg)]
    /\ UNCHANGED <<facadeVars, cn, tp, wt, dg, on, ad>>

MsgNext == Receive

Init ==
    /\ FacadeInit
    /\ ad = NoAddr
    /\ cn = NoConn
    /\ wt = NoWait
    /\ dg = NoDgram
    /\ on = NoOwnNode
    /\ rm = NoMsg
    /\ tp = NoTopo("little")

Next ==
    \/ \E k \in Kinds, ok \in BOOLEAN : BuilderNew(k, ok)
    \/ \E k \in Kinds, ok \in BOOLEAN : PlainNew(k, ok)
    \/ \E r \in Handles : BuilderInto(r)
    \/ \E r \in Handles, ok \in BOOLEAN : TryClone(r, ok)
    \/ \E r \in Handles, ok \in BOOLEAN : BuilderBind(r, ok)
    \/ \E r \in Handles, c \in FacadeResults : BuilderConnect(r, c)
    \/ \E r \in Handles, ok \in BOOLEAN : BuilderOption(r, ok)
    \/ \E r \in Handles, ok \in BOOLEAN : BoundBind(r, ok)
    \/ \E r \in Handles, ok \in BOOLEAN : BoundUnbind(r, ok)
    \/ \E r \in Handles, ok \in BOOLEAN : BoundListen(r, ok)
    \/ \E r \in Handles : BoundInto(r)
    \/ \E r \in Handles : ListenerFrom(r)
    \/ \E r \in Handles, ok \in BOOLEAN : ListenerAccept(r, ok)
    \/ \E r \in Handles, c \in FacadeResults : PlainConnect(r, c)
    \/ \E r \in Handles : IntoConnected(r)
    \/ \E r \in Handles, ok \in BOOLEAN : DatagramBind(r, ok)
    \/ \E r \in Handles, ok \in BOOLEAN : DatagramJoin(r, ok)
    \/ \E r \in Handles, ok \in BOOLEAN : GroupLeave(r, ok)
    \/ \E r \in Handles, c \in {"listen", "connect"}, ok \in BOOLEAN : SocketCall(r, c, ok)
    \/ \E r \in Handles : Drop(r)
    \/ \E r \in Handles : IntoRawFd(r)

Spec == Init /\ [][Next]_vars

SpecConn == Init /\ [][ConnNext]_vars

SpecTopo == TopoInit /\ [][TopoNext]_vars

SpecMsg == MsgInit /\ [][MsgNext]_vars
SpecWait == WaitInit /\ [][WaitNext]_vars
SpecSock == SockInit /\ [][SockNext]_vars
SpecOwn == OwnInit /\ [][OwnNext]_vars
\* the thread that runs wait keeps running, a blocking recv returns once an
\* event is queued, and the server delivers the timeout event of a
\* subscription that has a timeout
SpecWaitFair == SpecWait /\ WF_vars(WaitStep) /\ WF_vars(ServerExpire)

\* ------------------------------------------------------- claims on Spec
\* C1: descriptor ownership. After any sequence of public safe operations no
\* close ever hits a descriptor that is already closed, released by
\* into_raw_fd or still held by another live handle; every live handle holds
\* an open descriptor that no other live handle holds; every open descriptor
\* is either owned by exactly one live handle or was released by into_raw_fd;
\* and a released descriptor is never closed.
DescriptorOwnership ==
    /\ ~badClose
    /\ \A r \in Handles :
          /\ fdt[r.fd].open
          /\ r.fd \notin released
          /\ CopiesIn(r, hs) = 1
    /\ \A r \in Handles : \A g \in Handles : r.fd = g.fd => r = g
    /\ \A f \in FDs : fdt[f].open => (f \in released \/ \E r \in Handles : r.fd = f)
    /\ \A f \in released : fdt[f].open

\* a handle was dropped and its descriptor closed while another descriptor,
\* released by into_raw_fd, stays open
DescriptorOwnershipWitness ==
    /\ trans.op = "drop"
    /\ ~fdt[trans.self.fd].open
    /\ released /= {}

\* C2 (as stated): each of Builder::bind, Builder::connect, Bound::listen and
\* Listener::accept consumes the handle it is invoked on, so that handle is
\* not live after the call.
TransitionsConsumeInput ==
    trans.op \in {"Builder::bind", "Builder::connect", "Bound::listen", "Listener::accept"}
        => ~Live(trans.self)

\* C2 (amended): Builder::bind, Builder::connect and Bound::listen consume the
\* handle they are invoked on; Listener::accept borrows its Listener, which
\* stays live and usable after the call.
TransitionsConsumeExceptAccept ==
    /\ trans.op \in {"Builder::bind", "Builder::connect", "Bound::listen"} => ~Live(trans.self)
    /\ trans.op = "Listener::accept" => Live(trans.self)

\* an accept succeeded: the Listener is still live beside the new Connected
AcceptKeepsListener ==
    /\ trans.op = "Listener::accept"
    /\ Live(trans.self)
    /\ \E g \in Handles : g.wrap = "Connected" /\ g.fd /= trans.self.fd

\* C3: no connect, listen or accept syscall is ever issued on a Datagram
\* socket, the Socket reached through AsRef<Socket> and Deref included.
NoConnectListenAcceptOnDatagram ==
    sys.call \in {"connect", "listen", "accept"} => sys.typ /= "Datagram"

\* C4: every Listener the API can produce has had a successful bind and a
\* successful listen on its socket.
ListenerIsBoundAndListening ==
    \A r \in Handles : r.wrap = "Listener" =>
        skt[SkOf(r)].bound /\ skt[SkOf(r)].listening

\* ---------------------------------------------------- claims on SpecConn
\* C5: Socket::connect tries the candidates in order; it returns Ok at the
\* first connect syscall that succeeds and issues none after it; if every
\* candidate fails it returns the error of the last attempt; with no
\* candidate it returns AddrNotAvailable without any connect syscall.
ConnectFirstSuccessWins ==
    cn.called =>
        LET rs == cn.results IN
        /\ rs = <<>> => cn.res = AddrNotAvailable /\ cn.calls = 0
        /\ (\E i \in 1 .. Len(rs) : rs[i] = 0) =>
              /\ cn.res = OkUnit
              /\ rs[cn.calls] = 0
              /\ \A j \in 1 .. (cn.calls - 1) : rs[j] /= 0
        /\ (rs /= <<>> /\ \A i \in 1 .. Len(rs) : rs[i] /= 0) =>
              cn.res = OsError(rs[Len(rs)]) /\ cn.calls = Len(rs)

\* a candidate failed, the next succeeded, and a further candidate was left untried
ConnectStopsAtSuccess ==
    /\ cn.called
    /\ Len(cn.results) >= 3
    /\ cn.results[1] /= 0
    /\ cn.results[2] = 0
    /\ cn.calls = 2
    /\ cn.res = OkUnit

\* ----------------------------------------------------- claims on SpecMsg
\* C6 (as stated): for every received message without the OOB flag, recv_msg
\* returns Rejected{err, service} iff an ERRINFO control message is present
\* and Message{len, service} otherwise, never an error; recv_from returns the
\* error wrapping Rejected(err) exactly where recv_msg returns Rejected and
\* Ok((len, source address)) exactly where recv_msg returns Message.
RejectedIffErrInfo ==
    (rm.called /\ rm.msg.rc >= 0 /\ ~rm.msg.oob) =>
        /\ rm.out.kind = (IF rm.msg.err /= 0 THEN "Rejected" ELSE "Message")
        /\ rm.out.service = rm.msg.dest
        /\ rm.out.kind = "Rejected" =>
              /\ rm.out.err = rm.msg.err
              /\ rm.from.kind = "Err" /\ rm.from.why = "Rejected" /\ rm.from.err = rm.msg.err
        /\ rm.out.kind = "Message" =>
              /\ rm.out.len = rm.msg.rc
              /\ rm.from.kind = "Ok" /\ rm.from.len = rm.msg.rc /\ rm.from.addr = rm.msg.slot0

\* C6 (amended): as above, except that a rejection is reported as Rejected
\* only when the getsockname behind local_addr succeeds; when it fails both
\* recv_msg and recv_from return that OS error.
RejectedIffErrInfoAndLocalAddr ==
    (rm.called /\ rm.msg.rc >= 0 /\ ~rm.msg.oob) =>
        /\ rm.out.kind = (IF rm.msg.err = 0 THEN "Message"
                          ELSE IF rm.msg.gsn THEN "Rejected" ELSE "Err")
        /\ rm.out.kind = "Err" => rm.out.why = "os error" /\ rm.from = rm.out
        /\ rm.out.kind = "Rejected" =>
              /\ rm.out.err = rm.msg.err
              /\ rm.out.service = rm.msg.dest
              /\ rm.from.kind = "Err" /\ rm.from.why = "Rejected" /\ rm.from.err = rm.msg.err
        /\ rm.out.kind = "Message" =>
              /\ rm.out.len = rm.msg.rc
              /\ rm.out.service = rm.msg.dest
              /\ rm.from.kind = "Ok" /\ rm.from.len = rm.msg.rc /\ rm.from.addr = rm.msg.slot0

\* a rejected message with returned data and a destination name was received
RejectedReceived ==
    /\ rm.called /\ ~rm.msg.oob
    /\ rm.msg.err /= 0 /\ rm.msg.retlen > 0 /\ rm.msg.dest.some
    /\ rm.out.kind = "Rejected"
    /\ rm.from.kind = "Err"

\* C7: a message with the OOB flag and length 0 yields MemberLeave when EOR
\* is set and MemberJoin when it is clear, with the member address of name
\* slot 1 and the socket address of name slot 0; with the OOB flag and a
\* length above 0 it yields the error "unexpected OOB data".
OobClassification ==
    (rm.called /\ rm.msg.rc >= 0 /\ rm.msg.oob) =>
        /\ rm.msg.rc = 0 =>
              /\ rm.out.kind = (IF rm.msg.eor THEN "MemberLeave" ELSE "MemberJoin")
              /\ rm.out.member = rm.msg.slot1
              /\ rm.out.addr = rm.msg.slot0
        /\ rm.msg.rc > 0 => rm.out.kind = "Err" /\ rm.out.why = "unexpected OOB data"

\* ---------------------------------------------------- claims on SpecTopo
\* C8: the subscription carried in every Published / Withdrawn event equals
\* the Subscription that was passed to subscribe (service range, filter,
\* timeout and userdata), the server echoing the request unchanged.
EventCarriesOriginalSubscription ==
    (tp.op = "recv" /\ tp.res.kind \in {"Published", "Withdrawn"}) =>
        tp.res.subscription = tp.sub

\* C9: the record Server::unsubscribe(sub) sends is the record
\* Server::subscribe(sub) sent with the CANCEL bit (4) additionally set in
\* the filter word, every other byte being the same.
UnsubscribeSendsCopyWithCancel ==
    tp.op = "unsubscribe" =>
        tp.sent = [tp.rec EXCEPT !.filter = (IF HasBit(@, TIPC_SUB_CANCEL) THEN @ ELSE @ + TIPC_SUB_CANCEL)]

\* C10: Server::recv classifies a record by the bytes read and the event
\* code: 48 bytes with PUBLISHED give Published and with WITHDRAWN give
\* Withdrawn, with service = (subscription type, found_lower, found_upper)
\* and sock = (port ref, node); 48 bytes with SUBSCR_TIMEOUT give an error of
\* kind TimedOut; 48 bytes with any other code give an error; a read of any
\* other size gives an error and no event.
RecvClassifiesBySizeAndCode ==
    tp.op = "recv" =>
        /\ tp.size /= 48 => tp.res.kind = "Err" /\ tp.res.ekind /= "TimedOut"
        /\ (tp.size = 48 /\ tp.evt.event \in {1, 2}) =>
              /\ tp.res.kind = (IF tp.evt.event = 1 THEN "Published" ELSE "Withdrawn")
              /\ tp.res.service = [type |-> tp.evt.s.seq.type,
                                   lower |-> tp.evt.found_lower,
                                   upper |-> tp.evt.found_upper]
              /\ tp.res.sock = [port |-> tp.evt.port.ref, node |-> tp.evt.port.node]
        /\ (tp.size = 48 /\ tp.evt.event = 3) =>
              tp.res.kind = "Err" /\ tp.res.ekind = "TimedOut"
        /\ (tp.size = 48 /\ tp.evt.event \notin {1, 2, 3}) =>
              tp.res.kind = "Err" /\ tp.res.ekind = "Other"

\* a full event with code PUBLISHED and a proper found range was received
PublishedReceived ==
    /\ tp.op = "recv"
    /\ tp.size = 48
    /\ tp.evt.event = 1
    /\ tp.evt.found_lower < tp.evt.found_upper
    /\ tp.res.kind = "Published"

\* C11: for every Subscription the record that subscribe encodes has seq equal
\* to the service range, filter 2 for Edge and 1 for All, timeout 0xFFFFFFFF
\* when the timeout is None, and usr_handle equal to the bytes of userdata in
\* the byte order of the machine.
SubscriptionEncoding ==
    tp.op = "subscribe" =>
        /\ tp.sent.seq = tp.arg.service
        /\ tp.sent.filter = (IF tp.arg.filter = "Edge" THEN 2 ELSE 1)
        /\ ~tp.arg.timeout.some => tp.sent.timeout = <<65535, 65535>>
        /\ Len(tp.sent.usr_handle) = 8
        /\ \A k \in 1 .. 4 :
              IF tp.endian = "big"
              THEN tp.arg.userdata[k]
                      = tp.sent.usr_handle[2 * k - 1] * 256 + tp.sent.usr_handle[2 * k]
              ELSE tp.arg.userdata[k]
                      = tp.sent.usr_handle[10 - 2 * k] * 256 + tp.sent.usr_handle[9 - 2 * k]
        /\ \A i \in 1 .. 8 : tp.sent.usr_handle[i] \in 0 .. 255

\* an Edge subscription without timeout and with userdata was encoded
EdgeForeverEncoded ==
    /\ tp.op = "subscribe"
    /\ tp.arg.filter = "Edge"
    /\ ~tp.arg.timeout.some
    /\ tp.arg.userdata = <<1, 2, 3, 258>>
    /\ tp.sent.filter = 2

\* C12: subscribe and unsubscribe succeed only if their single send reports
\* that all 28 bytes of the record were sent; a negative result or a partial
\* send returns an error, and the send is not retried nor the rest sent.
SingleSendAllOrError ==
    tp.op \in {"subscribe", "unsubscribe"} =>
        /\ tp.sends = 1
        /\ tp.res.kind = "Ok" => tp.size = 28
        /\ tp.size < 0 => tp.res.kind = "Err" /\ tp.res.ekind = "Os"
        /\ tp.size \in 0 .. 27 => tp.res.kind = "Err" /\ tp.res.ekind = "Other"
        /\ tp.size # 28 /\ tp.op = "subscribe" => ~tp.registered
        /\ tp.size # 28 /\ tp.op = "unsubscribe" => tp.registered

\* a partial send of unsubscribe returned an error after one send
PartialUnsubscribeFailed ==
    /\ tp.op = "unsubscribe"
    /\ tp.size = 27
    /\ tp.sends = 1
    /\ tp.res.kind = "Err"

\* ------------------------------------------------------- claims on SpecWait
\* C13: wait sends exactly one subscription (Edge filter, the given timeout)
\* and then takes events in the order of their delivery; with scope Node(n) it
\* skips exactly the events whose sock.node differs from n, with scope Global
\* none; it returns true if the first event it does not skip is Published,
\* false if it is Withdrawn, and takes no event after that one.
WaitReturnsFirstMatching ==
    /\ [](/\ Len(wt.sent) <= 1
          /\ (wt.pc = "recv" \/ wt.consumed # <<>> \/ wt.res.kind = "Ok") =>
                /\ Len(wt.sent) = 1
                /\ wt.sent[1].filter = 2
                /\ wt.sent[1].seq = [type |-> 18888, lower |-> 17, upper |-> 17]
                /\ wt.sent[1].timeout = (IF wt.timeout.some THEN <<0, 1000>>
                                         ELSE <<65535, 65535>>)
          /\ \A i \in 1 .. Len(wt.consumed) :
                (i < Len(wt.consumed) \/ wt.pc = "recv")
                    <=> /\ wt.consumed[i].size = SizeOfEvent
                        /\ wt.consumed[i].evt.event \in {TIPC_PUBLISHED, TIPC_WITHDRAWN}
                        /\ ~wt.scope.global
                        /\ wt.consumed[i].evt.port.node # wt.scope.node
          /\ wt.res.kind = "Ok" =>
                /\ wt.pc = "done"
                /\ wt.consumed # <<>>
                /\ LET last == wt.consumed[Len(wt.consumed)]
                   IN /\ last.evt.event \in {TIPC_PUBLISHED, TIPC_WITHDRAWN}
                      /\ wt.res.value = (last.evt.event = TIPC_PUBLISHED))
    /\ [][/\ wt'.consumed # wt.consumed =>
                /\ wt.queue # <<>>
                /\ wt'.consumed = Append(wt.consumed, Head(wt.queue))
                /\ wt'.queue = Tail(wt.queue)
          /\ wt.pc = "done" => wt'.consumed = wt.consumed /\ wt'.sent = wt.sent]_vars

\* wait on Node(1) skipped an event of node 2, returned true on a Published
\* event of node 1 and left a later event in the queue
WaitSkippedThenPublished ==
    /\ wt.pc = "done"
    /\ wt.scope = [global |-> FALSE, node |-> 1]
    /\ Len(wt.consumed) = 2
    /\ wt.consumed[1].evt.port.node = 2
    /\ wt.consumed[2].evt.port.node = 1
    /\ wt.consumed[2].evt.event = TIPC_PUBLISHED
    /\ wt.res = [kind |-> "Ok", ekind |-> "-", value |-> TRUE]
    /\ wt.queue # <<>>

\* C14: wait with a finite timeout always terminates, given that the server
\* delivers the subscription's timeout event; when the events taken before the
\* timeout event all came from other nodes than the Node(n) asked for (or
\* there were none), it returns an error of kind TimedOut.
WaitTimesOut ==
    /\ (wt.timeout.some /\ wt.pc = "connect") ~> (wt.pc = "done")
    /\ [](/\ wt.pc # "connect" /\ wt.pc # "subscribe"
          /\ wt.timeout.some
          /\ wt.consumed # <<>>
          /\ wt.consumed[Len(wt.consumed)].size = SizeOfEvent
          /\ wt.consumed[Len(wt.consumed)].evt.event = TIPC_SUBSCR_TIMEOUT
          => /\ wt.pc = "done"
             /\ wt.res.kind = "Err"
             /\ wt.res.ekind = "TimedOut")

\* wait on Node(1) with a timeout saw only an event of node 2 and then the
\* timeout event, and returned TimedOut
WaitTimedOutAfterOtherNode ==
    /\ wt.pc = "done"
    /\ wt.timeout.some
    /\ wt.scope = [global |-> FALSE, node |-> 1]
    /\ Len(wt.consumed) = 2
    /\ wt.consumed[1].evt.port.node = 2
    /\ wt.consumed[1].evt.event = TIPC_PUBLISHED
    /\ wt.consumed[2].evt.event = TIPC_SUBSCR_TIMEOUT
    /\ wt.res.kind = "Err" /\ wt.res.ekind = "TimedOut"

\* ------------------------------------------------------- claims on SpecSock
\* C15: after set_rejectable(true) the DEST_DROPPABLE option of the socket is
\* 0, so that a datagram sent to a service address nobody is bound to comes
\* back and the next recv_from fails with Rejected(code), code # 0; after
\* set_rejectable(false) the option is 1 and such datagrams are dropped.
RejectableClearsDestDroppable ==
    /\ (dg.op = "set_rejectable" /\ dg.ok) => dg.droppable = (IF dg.arg THEN 0 ELSE 1)
    /\ (dg.op = "send_to" /\ dg.ok /\ dg.sent # "delivered" /\ dg.rejectable = "true")
          => dg.sent = "returned"
    /\ (dg.op = "send_to" /\ dg.ok /\ dg.sent # "delivered" /\ dg.rejectable = "false")
          => dg.sent = "dropped"
    /\ dg.op = "recv_from" =>
          /\ dg.res.kind = "Err"
          /\ dg.res.why = "Rejected"
          /\ dg.res.err # 0

\* C19: the sockaddr_tipc that send_to passes to the kernel has family
\* AF_TIPC; for ServiceAddr(t,i) it has addrtype SERVICE_ADDR and name (t,i)
\* with domain equal to the scope (0 for Global); for SocketAddr(port,node) it
\* has addrtype SOCKET_ADDR and the same (port,node); for ServiceRange(t,l,u)
\* it has addrtype SERVICE_ADDR, MCAST being the addrtype of the mcast path.
SendToCastDispatch ==
    /\ dg.op = "mcast" => dg.sas[1].addrtype = 1
    /\ dg.op = "send_to" =>
        LET sa == dg.sas[1]
            a == dg.arg
        IN /\ Len(dg.sas) = 1
           /\ sa.family = 30
           /\ a.tag = "ServiceAddr" =>
                 sa.addrtype = 2 /\ sa.words = <<a.type, a.instance, <<0, 0>>>>
           /\ a.tag = "Scope" =>
                 /\ sa.addrtype = 2
                 /\ sa.words[1] = a.addr.type /\ sa.words[2] = a.addr.instance
                 /\ sa.words[3] = (IF a.scope.global THEN <<0, 0>> ELSE <<0, a.scope.node>>)
           /\ a.tag = "SocketAddr" =>
                 sa.addrtype = 3 /\ sa.words[1] = a.port /\ sa.words[2] = a.node
           /\ a.tag \in {"ServiceRange", "Visibility"} => sa.addrtype = 2

\* C19 as the code has it: as above, but for ServiceRange(t,l,u) the record
\* has addrtype SERVICE_RANGE (1, the number of MCAST too), nameseq (t,l,u)
\* and scope equal to the visibility, Cluster (2) when none is given; mcast
\* overwrites the addrtype with MCAST whatever the address is.
SendToCastDispatchRange ==
    /\ dg.op = "mcast" => dg.sas[1].addrtype = 1 /\ dg.sas[1].family = 30
    /\ dg.op = "send_to" =>
        LET sa == dg.sas[1]
            a == dg.arg
        IN /\ Len(dg.sas) = 1
           /\ sa.family = 30
           /\ a.tag = "ServiceAddr" =>
                 sa.addrtype = 2 /\ sa.words = <<a.type, a.instance, <<0, 0>>>>
           /\ a.tag = "Scope" =>
                 /\ sa.addrtype = 2
                 /\ sa.words[1] = a.addr.type /\ sa.words[2] = a.addr.instance
                 /\ sa.words[3] = (IF a.scope.global THEN <<0, 0>> ELSE <<0, a.scope.node>>)
           /\ a.tag = "SocketAddr" =>
                 sa.addrtype = 3 /\ sa.words[1] = a.port /\ sa.words[2] = a.node
           /\ a.tag = "ServiceRange" =>
                 /\ sa.addrtype = 1 /\ sa.scope = 2
                 /\ sa.words = <<a.type, a.lower, a.upper>>
           /\ a.tag = "Visibility" =>
                 /\ sa.addrtype = 1
                 /\ sa.scope = (CASE a.visibility = "Zone" -> 1 [] a.visibility = "Cluster" -> 2
                                  [] a.visibility = "Node" -> 3)
                 /\ sa.words = <<a.addr.type, a.addr.lower, a.addr.upper>>

\* send_to was called with a ServiceRange and with a ServiceAddr scoped to a node
SentToServiceRange ==
    /\ dg.op = "send_to"
    /\ dg.arg.tag = "ServiceRange"
    /\ dg.sas[1].addrtype = 1
    /\ dg.sas[1].words[3] = <<0, 7>>

\* C20: bind issues one bind syscall per element, in order, with addrtype
\* SERVICE_RANGE: ServiceAddr(t,i) gives the range (t,i,i) at visibility
\* Cluster (2), ServiceRange(t,l,u) gives (t,l,u) at Cluster, a pair (range,
\* Visibility v) gives that range at v, a bare type t gives the full interval
\* (t, 0, 2^32-1) at Cluster.
BindingRule ==
    dg.op = "bind" =>
        LET sa == dg.sas[1]
            a == dg.arg
            v == IF a.tag = "Visibility" THEN a.visibility ELSE "Cluster"
            x == IF a.tag = "Visibility" THEN a.addr ELSE a
        IN /\ Len(dg.sas) = 1
           /\ sa.family = 30
           /\ sa.addrtype = 1
           /\ sa.scope = (CASE v = "Zone" -> 1 [] v = "Cluster" -> 2 [] v = "Node" -> 3)
           /\ x.tag = "ServiceAddr" => sa.words = <<x.type, x.instance, x.instance>>
           /\ x.tag = "ServiceRange" => sa.words = <<x.type, x.lower, x.upper>>
           /\ x.tag = "Type" => sa.words = <<x.type, <<0, 0>>, <<65535, 65535>>>>

\* a bare type was bound: the full interval at Cluster
BoundBareType ==
    /\ dg.op = "bind" /\ dg.ok
    /\ dg.arg.tag = "Type"
    /\ dg.sas = <<[family |-> 30, addrtype |-> 1, scope |-> 2,
                   words |-> <<dg.arg.type, <<0, 0>>, <<65535, 65535>>>>]>>

\* ---------------------------------------------- further claims on SpecTopo
\* C16: whenever a receive on a topology connection fails (syscall error,
\* short read, subscription timeout, unexpected event code) the caller gets
\* an error value that identifies the failure, also when the receive is made
\* by the next() of an iterator; and no failed send is repeated.
ReceiveFailuresSurface ==
    /\ tp.op \in {"recv", "events", "nodes"} =>
          /\ tp.size < 0 => tp.got.kind = "Err" /\ tp.got.ekind = "Os"
          /\ tp.size \in 0 .. 47 => tp.got.kind = "Err" /\ tp.got.ekind = "Other"
          /\ (tp.size = 48 /\ tp.evt.event = 3) =>
                tp.got.kind = "Err" /\ tp.got.ekind = "TimedOut"
          /\ (tp.size = 48 /\ tp.evt.event \notin {1, 2, 3}) =>
                tp.got.kind = "Err" /\ tp.got.ekind = "Other"
    /\ tp.op \in {"subscribe", "unsubscribe"} /\ tp.res.kind = "Err" =>
          tp.got = tp.res /\ tp.sends = 1

\* -------------------------------------------------------- claims on SpecOwn
\* C17: under any interleaving of the callers of own_node the SOCK_RDM socket
\* is created and queried at most once, every call on any thread returns the
\* same value, and that value is never changed nor queried again, also when
\* the first attempt failed and 0 was cached.
OwnNodeOnce ==
    /\ [](/\ on.queries <= 1
          /\ \A t \in OwnThreads : \A i \in 1 .. Len(on.ret[t]) :
                /\ on.ret[t][i] = on.value
                /\ on.once = "complete"
                /\ on.queries = 1
          /\ on.failed => on.value = 0)
    /\ [][on.once = "complete" =>
            /\ on'.value = on.value
            /\ on'.queries = on.queries
            /\ on'.once = "complete"]_vars

\* the one attempt failed, and both threads got the cached 0 twice
OwnNodeFailedCached ==
    /\ on.failed
    /\ on.queries = 1
    /\ \A t \in OwnThreads : on.ret[t] = <<0, 0>>

\* -------------------------------------------------- further claims on SpecMsg
\* C18: recv_from_vectored(bufs) behaves as one recv_from on the
\* concatenation of bufs: for every incoming message (data, a rejected
\* message returned with ERRINFO, a zero-length OOB group member event) both
\* succeed with the same length and source address, or both fail.
VectoredAsRecvFrom ==
    rm.called =>
        /\ (rm.vec.kind = "Ok") <=> (rm.from.kind = "Ok")
        /\ rm.vec.kind = "Ok" /\ rm.from.kind = "Ok" =>
              rm.vec.len = rm.from.len /\ rm.vec.addr = rm.from.addr

\* C30: the timeout encoding of a subscription does not wrap: for every finite
\* timeout Some(d) the 32-bit timeout field of the record equals d in whole
\* milliseconds and is not the sentinel 0xFFFFFFFF; only None encodes as
\* 0xFFFFFFFF.
TimeoutEncodingInjective ==
    tp.op = "subscribe" =>
        IF tp.arg.timeout.some
        THEN /\ tp.arg.timeout.val.ms = <<0>> \o tp.sent.timeout
             /\ tp.sent.timeout # <<65535, 65535>>
        ELSE tp.sent.timeout = <<65535, 65535>>

\* C29: recv_msg never aborts: whatever recvmsg hands back (length, MSG_OOB and
\* MSG_EOR, one name slot or two, any control messages), the call returns a
\* RecvMsg value or an io::Error and never panics.
RecvMsgNeverAborts ==
    rm.called => rm.out.kind \in {"Err", "MemberJoin", "MemberLeave", "Rejected", "Message"}

\* C23: the outcome of recv_msg does not depend on the order of the control
\* messages: the result and the bytes copied into the caller's buffer are those
\* of the same control messages with ERRINFO ahead of RETDATA and without the
\* control messages of an unknown type or of another level.
CmsgOrderIndependent ==
    rm.called => rm.out = RecvMsg([rm.msg EXCEPT !.first = "ERRINFO", !.extra = "-"])

\* C24: when a rejected message whose payload has n bytes is received, recv_msg
\* copies min(n, buf.len()) bytes of the payload into the caller's buffer, for
\* every n up to TIPC_MAX_USER_MSG_SIZE.
RetDataCopied ==
    (rm.called /\ rm.msg.rc >= 0 /\ ~rm.msg.oob /\ rm.msg.err /= 0
        /\ rm.msg.first = "ERRINFO" /\ rm.msg.extra = "-") =>
        rm.out.copied = (IF rm.msg.retlen < rm.msg.blen THEN rm.msg.retlen ELSE rm.msg.blen)

\* C25: multicast(buf, addr) hands the kernel a sockaddr of address type MCAST
\* whose name sequence is the range denoted by addr: (t, l, u) for a
\* ServiceRange(t, l, u) and (t, i, i) for a ServiceAddr(t, i).
McastNameSeq ==
    dg.op = "mcast" =>
        LET sa == dg.sas[1]
            a == dg.arg
        IN /\ sa.family = AF_TIPC /\ sa.addrtype = TIPC_ADDR_MCAST
           /\ a.tag = "ServiceRange" => sa.words = <<a.type, a.lower, a.upper>>
           /\ a.tag = "ServiceAddr" => sa.words = <<a.type, a.instance, a.instance>>

\* C28: Bound::unbind(addr) only removes bindings: when it returns the
\* descriptor of the socket is still open and the handle is still usable.
UnbindKeepsDescriptor ==
    trans.op = "Bound::unbind" => fdt[trans.self.fd].open /\ Live(trans.self)

\* C26: a failed transition gives the socket up: when Builder::bind,
\* Builder::connect, a Builder option setter, Datagram::join or Group::leave
\* returns an error, the handle it consumed is gone, no handle holds its
\* descriptor, and the descriptor has been closed, by a close that was the only
\* one of that descriptor.
FailedTransitionGivesUp ==
    (trans.op \in {"Builder::bind", "Builder::connect", "Builder::option",
                   "Datagram::join", "Group::leave"} /\ trans.failed) =>
        /\ ~Live(trans.self)
        /\ ~\E g \in Handles : g.fd = trans.self.fd
        /\ ~fdt[trans.self.fd].open
        /\ ~badClose

\* a Group::leave failed while a clone of the socket is held: the descriptor of
\* the Group is closed, the clone's is open
LeaveFailedBesideClone ==
    /\ trans.op = "Group::leave" /\ trans.failed
    /\ ~fdt[trans.self.fd].open
    /\ \E g \in Handles : g.typ = "Datagram" /\ fdt[g.fd].open

\* C27: typed state agrees with kernel state: no Builder handle refers to a
\* socket that is bound, listening or connected, every Listener handle refers
\* to a listening socket and every Connected<Stream> handle to a connected one.
TypedStateAgrees ==
    \A r \in Handles :
        /\ r.wrap = "Builder" =>
              ~skt[SkOf(r)].bound /\ ~skt[SkOf(r)].listening /\ ~skt[SkOf(r)].connected
        /\ r.wrap = "Listener" => skt[SkOf(r)].listening
        /\ (r.wrap = "Connected" /\ r.typ = "Stream") => skt[SkOf(r)].connected

\* ---------------------------------------------------- claims on SpecAddr
\* C21: every ServiceRange the library produces, through new, with_range, the
\* From conversions or parsing from text, has lower <= upper.
RangesOrdered ==
    (ad.op \in {"new", "with_range", "from", "from_str"} /\ ad.out.ok
        /\ ad.out.tag = "ServiceRange") =>
        LET l == ad.out.val.lower
            u == ad.out.val.upper
        IN l[1] < u[1] \/ (l[1] = u[1] /\ l[2] <= u[2])

\* C22: address round trip: parsing the text that Display wrote for a
\* SocketAddr, a ServiceAddr or a ServiceRange, as the same type, yields the
\* original value; and whatever text parses to an address, the text Display
\* writes for that address parses to the same address (so a port written
\* without padding and the padded one denote the same SocketAddr).
DisplayFromStrRoundTrip ==
    /\ (ad.op = "from_str" /\ ad.shown /\ ad.ty = ad.arg.tag) =>
          ad.out.ok /\ ad.out.val = ad.arg
    /\ (ad.op = "from_str" /\ ad.out.ok) => FromStr(ad.ty, Display(ad.out.val)) = ad.out

\* SocketAddr(123, 456) was written as "0:0000000123@1c8" and parsed back
SocketAddrParsedBack ==
    /\ ad.op = "from_str" /\ ad.shown /\ ad.ty = "SocketAddr"
    /\ ad.arg = [tag |-> "SocketAddr", port |-> U32(123), node |-> U32(456)]
    /\ ad.text = <<"0", ":", "0", "0", "0", "0", "0", "0", "0", "1", "2", "3",
                   "@", "1", "c", "8">>
    /\ ad.out.ok /\ ad.out.val = ad.arg

====
